---- MODULE Spec2Model ----
(***************************************************************************)
(* A model of murasyp: exact-rational functions, gambles and rays           *)
(* (functions.py, vectors.py, gambles.py), sets of desirable gambles with   *)
(* their linear-programming queries (desirs.py, almostdesirs.py), and mass  *)
(* functions and credal sets (massfuncs.py, credalsets.py).                 *)
(*                                                                          *)
(* A rational is a pair <<n, d>> in lowest terms with d > 0, as             *)
(* fractions.Fraction keeps it.  A mapping is a TLA+ function from a set    *)
(* of labels to rationals.  An object is a record [type, map, val]: type    *)
(* is the Python class ("Gamble", "Ray", "Vector", "PMFunc", "Scalar") or   *)
(* the outcome of a failed call ("None", "ValueError", ...), map is its     *)
(* _mapping and val the number of a scalar.                                 *)
(***************************************************************************)
EXTENDS Integers, Sequences, FiniteSets, TLC

VARIABLES f, g, res, entries, hres, dset, dres, dpre, kset, kres, kpre,
          fobj, fres, aplst, strip

vars == <<f, g, res, entries, hres, dset, dres, dpre, kset, kres, kpre,
          fobj, fres, aplst, strip>>

algVars == <<f, g, res>>
hashVars == <<entries, hres>>
desirVars == <<dset, dres, dpre>>
credalVars == <<kset, kres, kpre>>
funcVars == <<fobj, fres>>
loopVars == <<aplst, strip>>

(***************************************************************************)
(* Bounds of the model.                                                     *)
(***************************************************************************)
Labels == {"a", "b", "c"}

\* Input gambles of the algebra take integer values in -MaxVal..MaxVal.
MaxVal == 2

\* Scalars n/d are written with 0 < |n| <= MaxScal and 1 <= d <= MaxScal.
MaxScal == 2

\* At most MaxEntries vectors are put in a set.
MaxEntries == 2

\* A set of desirable gambles is given at most MaxCones cones.
MaxCones == 5

\* The weights of a combination of gambles are the whole numbers 0..MaxWeight.
\* The rays that AddPool and PrevisionPool give have the values -1, 0 and 1
\* on three states: a program over them that has a solution has one at a
\* vertex, whose weights become whole numbers <= 6 once multiplied by a
\* 3 x 3 determinant, and for the sets of these rays the weights 0..2 find a
\* loss whenever the weights 0..6 do.
MaxWeight == 2

(***************************************************************************)
(* fractions.Fraction                                                       *)
(***************************************************************************)
Abs(n) == IF n < 0 THEN -n ELSE n

RECURSIVE GCD(_, _)
GCD(a, b) == IF b = 0 THEN a ELSE GCD(b, a % b)

\* Fraction(n, d): lowest terms, positive denominator.
Frac(n, d) ==
  LET k == GCD(Abs(n), Abs(d))
      s == IF d < 0 THEN -1 ELSE 1
  IN  <<(s * n) \div k, (s * d) \div k>>

Zero == <<0, 1>>
One == <<1, 1>>

FAdd(p, q) == Frac(p[1] * q[2] + q[1] * p[2], p[2] * q[2])
FMul(p, q) == Frac(p[1] * q[1], p[2] * q[2])
\* Fraction.__truediv__; the caller has excluded q = 0 (ZeroDivisionError).
FDiv(p, q) == Frac(p[1] * q[2], p[2] * q[1])
FNeg(p) == <<-p[1], p[2]>>
FLe(p, q) == p[1] * q[2] <= q[1] * p[2]
FLt(p, q) == p[1] * q[2] < q[1] * p[2]
FMin(S) == CHOOSE v \in S : \A w \in S : FLe(v, w)
FMax(S) == CHOOSE v \in S : \A w \in S : FLe(w, v)
FMax2(p, q) == IF FLe(p, q) THEN q ELSE p

\* murasyp._make_rational on a number given as n/d (an int is n/1).
MakeRational(v) == Frac(v[1], v[2])

(***************************************************************************)
(* Objects                                                                  *)
(*                                                                          *)
(* A value that a definition uses more than once is bound as x \in {e},     *)
(* the way the code holds it in a local variable: it is computed once.      *)
(***************************************************************************)
EmptyMap == [x \in {} |-> Zero]

Scalar(v) == [type |-> "Scalar", map |-> EmptyMap, val |-> v]
Failure(kind) == [type |-> kind, map |-> EmptyMap, val |-> Zero]
NoneObj == Failure("None")

IsFunctionObj(o) == o.type \in {"Gamble", "Ray"}
IsFailure(o) ==
  o.type \notin {"Gamble", "Ray", "Scalar", "DiRay", "frozenset", "True", "False",
                 "Vector", "PMFunc", "CredalSet", "DesirSet"}

\* isinstance(o, cls) for the classes Gamble and Ray (Ray derives from Gamble).
IsInstance(o, cls) ==
  \/ o.type = cls
  \/ (o.type = "Ray" /\ cls = "Gamble")

\* Function.__init__: the values are made rational; the class of the
\* instance is kept (and is what _normless_type is set to).
FunctionInit(cls, m) ==
  CHOOSE o \in {[type |-> cls,
                 map |-> [x \in DOMAIN mapping |-> MakeRational(mapping[x])],
                 val |-> Zero] : mapping \in {m}} : TRUE

\* Gamble.__init__ on a Set: its indicator function.
Indicator(S) == [x \in S |-> One]

GambleInit(m) == FunctionInit("Gamble", m)

\* Vector.__getitem__: unspecified values are zero.
GetItem(m, x) == IF x \in DOMAIN m THEN m[x] ELSE MakeRational(Zero)

\* Mutant: the intersection of the domains, as in Function._domain_joiner.
DomainJoinerMeet(m1, m2) == DOMAIN m1 \cap DOMAIN m2

\* Vector._domain_joiner: the union of the domains.
DomainJoiner(m1, m2) == DOMAIN m1 \cup DOMAIN m2

Domain(o) == DOMAIN o.map
Range(o) == {o.map[x] : x \in DOMAIN o.map}
Support(o) == {x \in DOMAIN o.map : o.map[x] # Zero}

\* Gamble.bounds
Bounds(o) ==
  CHOOSE b \in {IF values # {} THEN <<FMin(values), FMax(values)>>
                ELSE <<Zero, Zero>> : values \in {Range(o)}} : TRUE

\* Mutant: the largest value instead of the largest absolute value.
NormMaxOnly(o) == CHOOSE norm \in {b[2] : b \in {Bounds(o)}} : TRUE

\* Gamble.norm
Norm(o) ==
  CHOOSE norm \in {FMax2(FNeg(b[1]), b[2]) : b \in {Bounds(o)}} : TRUE

\* The operators Fraction.__add__, Fraction.__mul__ and Fraction.__truediv__
\* that the pointwise operations are given.
Apply(operator, p, q) ==
  CASE operator = "add" -> FAdd(p, q)
    [] operator = "mul" -> FMul(p, q)
    [] operator = "truediv" -> FDiv(p, q)

RECURSIVE Construct(_, _)

\* Function._with_scalar: the result is built by self._normless_type.
WithScalar(self, other, operator) ==
  IF other.type # "Scalar"
  THEN Failure("TypeError")
  ELSE Construct(self.type,
                 [x \in DOMAIN self.map |-> Apply(operator, self.map[x], MakeRational(other.val))])

\* Function._with_function, with Vector's _domain_joiner and __getitem__.
WithFunction(self, other, operator) ==
  IF IsInstance(other, self.type)
  THEN Construct(self.type,
                 [x \in DomainJoiner(self.map, other.map) |->
                    Apply(operator, GetItem(self.map, x), GetItem(other.map, x))])
  ELSE Failure("NotImplementedError")

\* Function._pointwise: any exception of _with_function falls back to
\* _with_scalar.
Pointwise(self, other, operator) ==
  CHOOSE out \in {IF IsFailure(r) THEN WithScalar(self, other, operator) ELSE r :
                    r \in {WithFunction(self, other, operator)}} : TRUE

\* Function.__truediv__
TrueDiv(self, other) ==
  IF other.type = "Scalar" /\ MakeRational(other.val) = Zero
  THEN Failure("ZeroDivisionError")
  ELSE WithScalar(self, other, "truediv")

\* Mutant: divides without looking at the norm first.
NormalizedNoCheck(self) ==
  CHOOSE out \in {TrueDiv(self, Scalar(norm)) : norm \in {Norm(self)}} : TRUE

\* Mutant: the zero check is kept, the division is forgotten.
NormalizedNoDiv(self) ==
  CHOOSE out \in {IF norm = Zero THEN NoneObj ELSE self :
                    norm \in {Norm(self)}} : TRUE

\* Gamble.normalized
Normalized(self) ==
  CHOOSE out \in {IF norm = Zero THEN NoneObj ELSE TrueDiv(self, Scalar(norm)) :
                    norm \in {Norm(self)}} : TRUE

\* Vector.__or__: restriction or extension with zero.
Restrict(self, S) ==
  Construct(self.type, [x \in S |-> GetItem(self.map, x)])

\* Mutant: the None of normalized() is not looked for, and restricting it
\* fails.
RayInitUnchecked(data) ==
  CHOOSE ray \in
    UNION {{IF gamble = NoneObj THEN Failure("AttributeError")
            ELSE IF IsFailure(gamble) THEN gamble
            ELSE FunctionInit("Ray", Restrict(gamble, Support(gamble)).map) :
              gamble \in {Normalized(given)}} :
           given \in {GambleInit(data)}} : TRUE

\* Ray.__init__
RayInit(data) ==
  CHOOSE ray \in
    UNION {{IF gamble = NoneObj THEN Failure("ValueError")
            ELSE IF IsFailure(gamble) THEN gamble
            ELSE FunctionInit("Ray", Restrict(gamble, Support(gamble)).map) :
              gamble \in {Normalized(given)}} :
           given \in {GambleInit(data)}} : TRUE

\* type(self)(mapping) and self._normless_type(mapping)
Construct(cls, m) == IF cls = "Ray" THEN RayInit(m) ELSE FunctionInit(cls, m)

\* Gamble.__mul__
GambleMul(self, other) ==
  IF IsInstance(other, "Gamble")
  THEN Construct(self.type,
                 [x \in DomainJoiner(self.map, other.map) |->
                    FMul(GetItem(self.map, x), GetItem(other.map, x))])
  ELSE Pointwise(self, other, "mul")

\* Ray.__mul__ (and __rmul__): both operands are demoted to Gamble.
RayMul(self, other) ==
  CHOOSE out \in
    {GambleMul(s, o) :
       s \in {GambleInit(self.map)},
       o \in {IF IsInstance(other, "Ray") THEN GambleInit(other.map) ELSE other}} :
    TRUE

Mul(self, other) ==
  IF self.type = "Ray" THEN RayMul(self, other) ELSE GambleMul(self, other)

\* Ray.__div__
RayDiv(self, other) ==
  CHOOSE out \in {TrueDiv(s, Scalar(MakeRational(other.val))) :
                    s \in {GambleInit(self.map)}} : TRUE

Div(self, other) ==
  IF self.type = "Ray" THEN RayDiv(self, other) ELSE TrueDiv(self, other)

\* Function.__neg__, and the negation of a number.
Neg(self) ==
  IF self.type = "Scalar"
  THEN Scalar(FNeg(MakeRational(self.val)))
  ELSE Mul(self, Scalar(<<-1, 1>>))

\* Gamble.__add__
Add(self, other) ==
  IF IsInstance(other, "Gamble")
  THEN Pointwise(self, other, "add")
  ELSE Construct(self.type,
                 [x \in DOMAIN self.map |->
                    FAdd(self.map[x], MakeRational(other.val))])

\* Function.__sub__
Sub(self, other) ==
  CHOOSE out \in {IF IsFailure(n) THEN n ELSE Add(self, n) :
                    n \in {Neg(other)}} : TRUE

(***************************************************************************)
(* Inputs of the algebra                                                    *)
(***************************************************************************)
IntVal(n) == <<n, 1>>

\* Every mapping from a subset of Labels to the integers -n..n.
MapsUpTo(n) ==
  UNION {[D -> {IntVal(v) : v \in (-n)..n}] : D \in SUBSET Labels}

GamblePool == MapsUpTo(MaxVal)
OperandPool == MapsUpTo(1)

\* Scalars as they are written: n/d, not necessarily in lowest terms.
ScalarPool ==
  {<<n, d>> : n \in ((-MaxScal)..MaxScal) \ {0}, d \in 1..MaxScal}

NoRes == [op |-> "none", k |-> Zero, out |-> NoneObj]

Result(op, k, out) == [op |-> op, k |-> k, out |-> out]

(***************************************************************************)
(* The algebra: each behaviour draws the gamble f and applies one           *)
(* operation to it; g is the second operand, res the outcome.               *)
(***************************************************************************)
IdleAlg == f = EmptyMap /\ g = EmptyMap /\ res = NoRes
IdleHash == entries = {} /\ hres = <<>>
NoDRes == [op |-> "none", arg |-> EmptyMap, val |-> Zero, out |-> NoneObj]

DRes(op, arg, val, out) == [op |-> op, arg |-> arg, val |-> val, out |-> out]

IdleDesir == dset = {} /\ dres = NoDRes /\ dpre = {}
NoKRes == [op |-> "none", arg |-> EmptyMap, out |-> NoneObj]

IdleCredal == kset = {} /\ kres = NoKRes /\ kpre = {}
NoFRes == [op |-> "none", arg |-> NoneObj, out |-> NoneObj, pre |-> NoneObj]

IdleFunc == fobj = NoneObj /\ fres = NoFRes
NoLoop == [phase |-> "none"]

IdleLoop == aplst = NoLoop /\ strip = NoLoop

AlgStep(op, k, h, out) ==
  /\ res = NoRes
  /\ g' = h
  /\ res' = Result(op, k, out)
  /\ UNCHANGED <<f, hashVars, desirVars, credalVars, funcVars, loopVars>>

\* f + h
GambleAdd ==
  /\ res = NoRes
  /\ \E h \in OperandPool :
       AlgStep("add", Zero, h, Add(GambleInit(f), GambleInit(h)))

\* f - h
GambleSub ==
  /\ res = NoRes
  /\ \E h \in OperandPool :
       AlgStep("sub", Zero, h, Sub(GambleInit(f), GambleInit(h)))

\* f * h
GambleTimes ==
  /\ res = NoRes
  /\ \E h \in OperandPool :
       AlgStep("mul", Zero, h, Mul(GambleInit(f), GambleInit(h)))

\* Ray(f)
MakeRay ==
  /\ res = NoRes
  /\ AlgStep("ray", Zero, EmptyMap, RayInit(f))

\* Ray(k * f) for a positive k; k * f is Function.__rmul__.
MakeRayScaled ==
  /\ res = NoRes
  /\ \E k \in {q \in ScalarPool : q[1] > 0} :
       AlgStep("rayscaled", k, EmptyMap,
               RayInit(Pointwise(GambleInit(f), Scalar(k), "mul").map))

\* Ray(Ray(f))
MakeRayOfRay ==
  /\ res = NoRes
  /\ RayInit(f).type = "Ray"
  /\ AlgStep("rayray", Zero, EmptyMap, RayInit(RayInit(f).map))

\* Ray(f) + Ray(h)
RayPlus ==
  /\ res = NoRes
  /\ RayInit(f).type = "Ray"
  /\ \E h \in OperandPool :
       /\ RayInit(h).type = "Ray"
       /\ AlgStep("radd", Zero, h, Add(RayInit(f), RayInit(h)))

\* Ray(f) * Ray(h)
RayTimes ==
  /\ res = NoRes
  /\ RayInit(f).type = "Ray"
  /\ \E h \in OperandPool :
       /\ RayInit(h).type = "Ray"
       /\ AlgStep("rmul", Zero, h, Mul(RayInit(f), RayInit(h)))

\* k * Ray(f)
RayScale ==
  /\ res = NoRes
  /\ RayInit(f).type = "Ray"
  /\ \E k \in ScalarPool :
       AlgStep("rscale", k, EmptyMap, Mul(RayInit(f), Scalar(k)))

\* Ray(f) / k
RayOver ==
  /\ res = NoRes
  /\ RayInit(f).type = "Ray"
  /\ \E k \in ScalarPool :
       AlgStep("rdiv", k, EmptyMap, Div(RayInit(f), Scalar(k)))

InitAlg ==
  /\ f \in GamblePool
  /\ g = EmptyMap
  /\ res = NoRes
  /\ IdleHash
  /\ IdleDesir
  /\ IdleCredal
  /\ IdleFunc
  /\ IdleLoop

NextAlg ==
  \/ GambleAdd
  \/ GambleSub
  \/ GambleTimes
  \/ MakeRay
  \/ MakeRayScaled
  \/ MakeRayOfRay
  \/ RayPlus
  \/ RayTimes
  \/ RayScale
  \/ RayOver

SpecAlg == InitAlg /\ [][NextAlg]_vars

(***************************************************************************)
(* Sets of desirable gambles (desirs.py)                                    *)
(*                                                                          *)
(* The members of a DesirSet are two-tier rays: asl and apl read a member   *)
(* as a ray (its first tier) and apl reads its second tier as .dir.         *)
(***************************************************************************)
\* Origin.__init__: the gamble on the empty domain.
Origin == EmptyMap

\* DiRay.__init__
DiRayInit(data, dir_data) ==
  CHOOSE diray \in
    {IF IsFailure(ray) THEN ray
     ELSE IF dir_data = EmptyMap
     THEN [type |-> "DiRay", map |-> ray.map, dir |-> Origin]
     ELSE IF IsFailure(dir) THEN dir
     ELSE [type |-> "DiRay", map |-> ray.map, dir |-> dir.map] :
       ray \in {RayInit(data)}, dir \in {RayInit(dir_data)}} : TRUE

\* Cone(data), data being given as the sequence of its gamble-likes: every
\* one is made a Ray and equal rays collapse.  A cone of one generator is
\* that ray with the Origin as second tier; the cone of set_lower_pr is the
\* two-tier ray of its two generators, as the doctest of apl shows it.
Cone(data) ==
  IF Len(data) = 1 \/ RayInit(data[1]) = RayInit(data[2])
  THEN DiRayInit(data[1], EmptyMap)
  ELSE DiRayInit(data[1], data[2])

\* Cone.domain: the union of the domains of the generators.
ConeDomain(cone) == DOMAIN cone.map \cup DOMAIN cone.dir

\* The generators of a cone.
Generators(cone) ==
  {cone.map} \cup (IF cone.dir = Origin THEN {} ELSE {cone.dir})

\* DesirSet.__init__ on a possibility space: one cone per state, generated
\* by the indicator of that state.
DesirSetInit(data) == {Cone(<<Indicator({x})>>) : x \in data}

SetObj(S) == [type |-> "frozenset", set |-> S]
BoolObj(b) == Failure(IF b THEN "True" ELSE "False")

\* Mutant: the domains of the first tiers only.
PspaceFirstTier(S) ==
  IF S = {}
  THEN Failure("TypeError")
  ELSE SetObj(UNION {DOMAIN cone.map : cone \in S})

\* DesirSet.pspace: frozenset.union(*domains), which is called without any
\* argument when there is no cone.
Pspace(S) ==
  IF S = {}
  THEN Failure("TypeError")
  ELSE SetObj(UNION {ConeDomain(cone) : cone \in S})

\* Mutant: the operation leaves no member in the set.
OutcomeEmptied(S, out) == [set |-> {}, out |-> out]

\* The outcome of an operation on the set: the set it leaves and what it
\* returns or raises.
Outcome(S, out) == [set |-> S, out |-> out]

\* Mutant: the cone takes the place of the cones that were there.
DesirAddAlone(S, data) ==
  CHOOSE o \in {IF cone.type = "DiRay"
                THEN Outcome({cone}, NoneObj)
                ELSE Outcome(S, cone) : cone \in {Cone(data)}} : TRUE

\* DesirSet.add
DesirAdd(S, data) ==
  CHOOSE o \in {IF cone.type = "DiRay"
                THEN Outcome(S \cup {cone}, NoneObj)
                ELSE Outcome(S, cone) : cone \in {Cone(data)}} : TRUE

\* Mutant: set.remove instead of set.discard, a KeyError when it is absent.
DesirDiscardStrict(S, data) ==
  CHOOSE o \in {IF cone.type # "DiRay" THEN Outcome(S, cone)
                ELSE IF cone \notin S THEN Outcome(S, Failure("KeyError"))
                ELSE Outcome(S \ {cone}, NoneObj) : cone \in {Cone(data)}} : TRUE

\* DesirSet.discard: the cone of the rays of data is removed if it is there.
DesirDiscard(S, data) ==
  CHOOSE o \in {IF cone.type = "DiRay"
                THEN Outcome(S \ {cone}, NoneObj)
                ELSE Outcome(S, cone) : cone \in {Cone(data)}} : TRUE

\* Mutant: the value is added to the gamble instead of subtracted.
SetLowerPrPlus(S, data, val) ==
  CHOOSE o \in
    UNION {{DesirAdd(S, <<shifted.map, Indicator(Domain(gamble))>>) :
              shifted \in {Add(gamble, Scalar(MakeRational(val)))}} :
           gamble \in {GambleInit(data)}} : TRUE

\* DesirSet.set_lower_pr; gamble - val adds -val to every value of gamble
\* (Gamble.__add__ with a scalar).
SetLowerPr(S, data, val) ==
  CHOOSE o \in
    UNION {{DesirAdd(S, <<shifted.map, Indicator(Domain(gamble))>>) :
              shifted \in {Add(gamble, Scalar(FNeg(MakeRational(val))))}} :
           gamble \in {GambleInit(data)}} : TRUE

\* DesirSet.set_upper_pr
SetUpperPr(S, data, val) ==
  CHOOSE o \in
    UNION {{SetLowerPr(S, negated.map, <<-val[1], val[2]>>) :
              negated \in {Neg(gamble)}} :
           gamble \in {GambleInit(data)}} : TRUE

(***************************************************************************)
(* Linear programs (cdd.Matrix, cdd.LinProg)                                *)
(*                                                                          *)
(* A matrix is a sequence of rows <<b, a_1, .., a_n>> of fractions, each    *)
(* standing for b + a_1*x_1 + .. + a_n*x_n >= 0.  The solver is exact; it   *)
(* is modelled by a search of the points with whole coordinates 0..MaxWeight*)
(* (every program built here has the rows x_j >= 0).                        *)
(***************************************************************************)
RECURSIVE DenProd(_, _)
DenProd(row, k) == IF k = 0 THEN 1 ELSE row[k][2] * DenProd(row, k - 1)

\* The row times the product of its denominators: the same inequality in
\* whole numbers.
IntRow(row) ==
  CHOOSE irow \in {[j \in 1..Len(row) |-> row[j][1] * (L \div row[j][2])] :
                     L \in {DenProd(row, Len(row))}} : TRUE

RECURSIVE Dot(_, _, _)
Dot(irow, x, k) ==
  IF k = 0 THEN irow[1] ELSE irow[k + 1] * x[k] + Dot(irow, x, k - 1)

RowHolds(irow, x) == Dot(irow, x, Len(x)) >= 0

\* The places of the variables that a row has a nonzero coefficient for.
Used(irow) == {j \in 1..(Len(irow) - 1) : irow[j + 1] # 0}

\* A row that holds at every point of the box searched: it bounds a single
\* variable from above (the box is cut at that bound), or it holds at 0 and
\* grows with its only variable.
Enforced(irow) ==
  /\ Cardinality(Used(irow)) <= 1
  /\ \/ \E j \in Used(irow) : irow[j + 1] < 0
     \/ irow[1] >= 0

\* The least bound that the rows on x_j alone put on it, MaxWeight if none
\* is lower.
VarUpper(irows, j) ==
  CHOOSE cap \in
    {IF low = {} THEN MaxWeight ELSE CHOOSE c \in low : \A d \in low : c <= d :
       low \in {{c \in {(irows[i][1]) \div (-(irows[i][j + 1])) :
                          i \in {i \in 1..Len(irows) :
                                   Used(irows[i]) = {j} /\ irows[i][j + 1] < 0}} :
                   c < MaxWeight}}} : TRUE

\* A variable that the objective does not reward and that no row needs
\* above 0: what is feasible with it is feasible with 0 in its place, so
\* an optimal point has it at 0.
Dominated(irows, iobj, j) ==
  /\ iobj[j + 1] <= 0
  /\ \A i \in 1..Len(irows) : irows[i][j + 1] <= 0 \/ Enforced(irows[i])

RECURSIVE Box(_, _)
Box(ub, k) ==
  IF k = 0 THEN {<<>>}
  ELSE {Append(x, v) : x \in Box(ub, k - 1), v \in 0..ub[k]}

RECURSIVE ObjVal(_, _, _)
ObjVal(obj, x, k) ==
  IF k = 0 THEN 0 ELSE obj[k + 1] * x[k] + ObjVal(obj, x, k - 1)

\* The outcome of the search: the status, and a point of feas at which the
\* objective is largest.
Optimum(feas, iobj, n) ==
  IF feas = {}
  THEN [status |-> "INCONSISTENT", primal |-> <<>>]
  ELSE CHOOSE lp \in
         {[status |-> "OPTIMAL",
           primal |-> CHOOSE x \in feas : ObjVal(iobj, x, n) = top] :
            top \in {CHOOSE v \in vals : \A w \in vals : w <= v :
                       vals \in {{ObjVal(iobj, x, n) : x \in feas}}}} : TRUE

\* The search of the box below the bounds ub for the points at which the
\* rows hold.
Search(irows, iobj, n, ub) ==
  CHOOSE lp \in
    {Optimum(feas, iobj, n) :
       feas \in {{x \in Box(ub, n) : \A irow \in irows : RowHolds(irow, x)}}} :
    TRUE

\* The rows in whole numbers, the bounds of the variables and the rows that
\* are left to look at.
Presolve(irows, iobj, n) ==
  CHOOSE lp \in
    {Search({irows[i] : i \in {i \in 1..Len(irows) : ~Enforced(irows[i])}},
            iobj, n, ub) :
       ub \in {[j \in 1..n |->
                  CHOOSE cap \in
                    {IF c > 0 /\ Dominated(irows, iobj, j) THEN 0 ELSE c :
                       c \in {VarUpper(irows, j)}} : TRUE]}} :
    TRUE

\* LinProg(mat).solve() for a program in n variables whose objective obj
\* (with obj[1] the constant term) is to be maximised: the status and an
\* optimal point.
LPSolve(mat, obj, n) ==
  CHOOSE lp \in
    {Presolve(irows, iobj, n) :
       irows \in {[i \in 1..Len(mat) |-> IntRow(mat[i])]},
       iobj \in {IntRow(obj)}} :
    TRUE

(***************************************************************************)
(* Avoiding sure loss and partial loss (desirs.py)                          *)
(***************************************************************************)
\* list(S): the members in some order.
RECURSIVE ListOf(_)
ListOf(S) ==
  IF S = {} THEN <<>>
  ELSE CHOOSE l \in
         UNION {{<<x>> \o ListOf(T) : T \in {S \ {x}}} :
                x \in {CHOOSE y \in S : TRUE}} : TRUE

\* int(oray == ray)
IntEq(x, y) == IF x = y THEN One ELSE Zero

ZeroObj(n) == [j \in 1..n |-> Zero]

\* Mutant: the combination has to be <= 0 only.
AslStateRowLoose(D, x) ==
  <<Zero>> \o [j \in 1..Len(D) |-> FNeg(GetItem(D[j].map, x))]

\* The row [-1] + [-ray[x] for ray in D] of asl.
AslStateRow(D, x) ==
  <<FNeg(One)>> \o [j \in 1..Len(D) |-> FNeg(GetItem(D[j].map, x))]

\* The matrix of asl: the weights are nonnegative and their combination of
\* the rays is <= -1 at every state.
AslMatrix(D, pspace) ==
  [i \in 1..Len(D) |-> <<Zero>> \o [j \in 1..Len(D) |-> IntEq(D[j], D[i])]]
  \o [k \in 1..Len(pspace) |-> AslStateRow(D, pspace[k])]

\* Mutant: the status test of asl is the other way round.
AslInverted(S) ==
  CHOOSE out \in
    {IF IsFailure(ps) THEN ps
     ELSE CHOOSE b \in
            {BoolObj(lp.status = "OPTIMAL") :
               lp \in UNION {{LPSolve(AslMatrix(D, pspace),
                                      <<Zero>> \o ZeroObj(Len(D)), Len(D)) :
                                pspace \in {ListOf(ps.set)}} :
                             D \in {ListOf(S)}}} : TRUE :
       ps \in {Pspace(S)}} : TRUE

\* DesirSet.asl
Asl(S) ==
  CHOOSE out \in
    {IF IsFailure(ps) THEN ps
     ELSE CHOOSE b \in
            {BoolObj(lp.status # "OPTIMAL") :
               lp \in UNION {{LPSolve(AslMatrix(D, pspace),
                                      <<Zero>> \o ZeroObj(Len(D)), Len(D)) :
                                pspace \in {ListOf(ps.set)}} :
                             D \in {ListOf(S)}}} : TRUE :
       ps \in {Pspace(S)}} : TRUE

\* The rows of apl for the rays D, the states I of A (one variable tau
\* each) and the possibility space.
AplMatrix(D, I, pspace, rest) ==
  LET n == Len(D)
      m == Len(I)
  IN  [i \in 1..n |-> <<Zero>> \o [j \in 1..n |-> IntEq(D[j], D[i])] \o ZeroObj(m)]
      \o [i \in 1..m |-> <<Zero>> \o ZeroObj(n) \o [j \in 1..m |-> IntEq(I[j], I[i])]]
      \o [i \in 1..m |->
            <<One>> \o ZeroObj(n) \o [j \in 1..m |-> FNeg(IntEq(I[j], I[i]))]]
      \o [k \in 1..Len(pspace) |->
            <<Zero>> \o [j \in 1..n |-> FNeg(GetItem(D[j].map, pspace[k]))]
                     \o [j \in 1..m |-> FNeg(GetItem(Indicator({I[j]}), pspace[k]))]]
      \o [k \in 1..(Len(rest) * n) |->
            LET x == rest[((k - 1) \div n) + 1]
                ray == D[((k - 1) % n) + 1]
            IN  <<Zero>>
                \o [j \in 1..n |->
                      FMul(FNeg(GetItem(ray.dir, x)), IntEq(D[j], ray))]
                \o ZeroObj(m)]

\* The linear program of one round of apl, solved: the sum of the tau of
\* the states of A is maximised.
AplProgram(S, A) ==
  CHOOSE lp \in
    UNION {{LPSolve(AplMatrix(D, I, pspace, rest),
                    <<Zero>> \o ZeroObj(Len(D)) \o [j \in 1..Len(I) |-> One],
                    Len(D) + Len(I)) :
              pspace \in {ListOf(P)}, rest \in {ListOf(P \ A)}} :
           D \in {ListOf(S)}, I \in {ListOf(A)}, P \in {Pspace(S).set}} : TRUE

\* lp.primal_solution[-len(I):] for the states I of A, as the set of the
\* (state, value) pairs.
Tau(S, A, lp) ==
  CHOOSE tau \in
    {{<<I[k], lp.primal[Cardinality(S) + k]>> : k \in 1..Len(I)} :
       I \in {ListOf(A)}} : TRUE

\* Mutant: the first linear program decides, as in the single-shot apl.
AplRoundOnce(S, A) ==
  IF A = {} THEN NoneObj
  ELSE CHOOSE out \in
         {IF lp.status # "OPTIMAL" THEN Failure("ValueError")
          ELSE CHOOSE b \in
                 {BoolObj(\A t \in tau : t[2] = 0) :
                    tau \in {Tau(S, A, lp)}} : TRUE :
            lp \in {AplProgram(S, A)}} : TRUE

\* The while loop of apl, entered with the set A.
RECURSIVE AplRound(_, _)
AplRound(S, A) ==
  IF A = {} THEN NoneObj
  ELSE CHOOSE out \in
         {IF lp.status # "OPTIMAL" THEN Failure("ValueError")
          ELSE CHOOSE b \in
                 {IF \A t \in tau : t[2] = 0 THEN BoolObj(TRUE)
                  ELSE IF \A t \in tau : t[2] # 0 THEN BoolObj(FALSE)
                  ELSE CHOOSE later \in
                         {AplRound(S, next) :
                            next \in {{t[1] : t \in {u \in tau : u[2] = 1}}}} :
                         TRUE :
                    tau \in {Tau(S, A, lp)}} : TRUE :
            lp \in {AplProgram(S, A)}} : TRUE

\* DesirSet.apl
Apl(S) ==
  CHOOSE out \in {IF IsFailure(ps) THEN ps ELSE AplRound(S, ps.set) :
                    ps \in {Pspace(S)}} : TRUE

(***************************************************************************)
(* A set of desirable gambles in use: it is created empty or vacuous and    *)
(* then given and queried; dres is the last call with what it returned and  *)
(* dpre the set as that call found it.                                      *)
(***************************************************************************)
G1 == [a |-> <<-1, 1>>, b |-> <<-1, 1>>, c |-> <<1, 1>>]
G2 == [a |-> <<1, 1>>, b |-> <<-1, 1>>, c |-> <<-1, 1>>]
G3 == [a |-> <<-1, 1>>, b |-> <<1, 1>>, c |-> <<-1, 1>>]
Twos == [a |-> <<2, 1>>, b |-> <<2, 1>>, c |-> <<2, 1>>]
Zeros == [a |-> <<0, 1>>, b |-> <<0, 2>>]
\* The gamble-likes that are added.
AddPool == {G1, G2, G3, Twos, Zeros, EmptyMap, Indicator({"c"})}

\* The gamble-likes that are discarded.
DiscardPool == {Indicator({"c"}), G1, Zeros}

\* The indicator of {a, b} on {a, b, c}.
IndAB == [a |-> <<1, 1>>, b |-> <<1, 1>>, c |-> <<0, 1>>]

\* The (gamble, value) pairs that previsions are set for.
PrevisionPool == {<<IndAB, <<0, 1>>>>}

DesirStep(op, arg, val, o) ==
  /\ dset' = o.set
  /\ dpre' = dset
  /\ dres' = DRes(op, arg, val, o.out)
  /\ UNCHANGED <<algVars, hashVars, credalVars, funcVars, loopVars>>

DAdd ==
  /\ Cardinality(dset) < MaxCones
  /\ \E data \in AddPool :
       \E o \in {DesirAdd(dset, <<data>>)} : DesirStep("add", data, Zero, o)

DDiscard ==
  \E data \in DiscardPool :
    \E o \in {DesirDiscard(dset, <<data>>)} :
      DesirStep("discard", data, Zero, o)

DSetLowerPr ==
  /\ Cardinality(dset) < MaxCones
  /\ \E p \in PrevisionPool :
       \E o \in {SetLowerPr(dset, p[1], p[2])} :
         DesirStep("set_lower_pr", p[1], p[2], o)

DSetUpperPr ==
  /\ Cardinality(dset) < MaxCones
  /\ \E p \in PrevisionPool :
       \E o \in {SetUpperPr(dset, p[1], p[2])} :
         DesirStep("set_upper_pr", p[1], p[2], o)

DAsl ==
  \E out \in {Asl(dset)} :
    DesirStep("asl", EmptyMap, Zero, Outcome(dset, out))

DApl ==
  \E out \in {Apl(dset)} :
    DesirStep("apl", EmptyMap, Zero, Outcome(dset, out))

InitDesir ==
  /\ \E data \in {{}, Labels} : dset = DesirSetInit(data)
  /\ dres = NoDRes
  /\ dpre = {}
  /\ IdleAlg
  /\ IdleHash
  /\ IdleCredal
  /\ IdleFunc
  /\ IdleLoop

DPspace ==
  \E out \in {Pspace(dset)} :
    DesirStep("pspace", EmptyMap, Zero, Outcome(dset, out))

NextDesir ==
  \/ DPspace
  \/ DAdd
  \/ DDiscard
  \/ DSetLowerPr
  \/ DSetUpperPr
  \/ DAsl
  \/ DApl

SpecDesir == InitDesir /\ [][NextDesir]_vars

(***************************************************************************)
(* Previsions and expectations (desirs.py)                                  *)
(*                                                                          *)
(* A set of desirable gambles is given lower and upper previsions with      *)
(* fractional values and is asked for its possibility space and for lower   *)
(* and upper expectations.  The program of __mul__ has a variable without   *)
(* sign (the expectation), which the search of LPSolve does not cover: the  *)
(* status and the objective value that the solver ends with are inputs of   *)
(* the call.                                                                *)
(***************************************************************************)
\* A set is given previsions while it has fewer than MaxPrevCones cones.
MaxPrevCones == 4

\* The indicator of {a, b} on {a, b}.
IndABonAB == [a |-> <<1, 1>>, b |-> <<1, 1>>]

\* The gambles that previsions are set for, and the values: 0, 0.4 and 1.
PrevGambles == {IndAB, IndABonAB}
PrevValues == {<<0, 1>>, <<2, 5>>, <<1, 1>>}

\* The gamble of the doctests of credalsets.py.
GambleABC == [a |-> <<-1, 1>>, b |-> <<1, 1>>, c |-> <<0, 1>>]

\* What expectations are asked of: a gamble and a number.
ExPool == {GambleInit(GambleABC), Scalar(One)}

\* cdd.LPStatusType, as far as the code tells the members apart, and one of
\* the members it does not name.
LPStatuses ==
  {"OPTIMAL", "UNDECIDED", "INCONSISTENT", "UNBOUNDED", "DUAL_INCONSISTENT"}

\* The objective values the solver ends with.
ObjValues == {<<-1, 25>>, One}

\* An exception with its message.
ErrorWith(kind, msg) ==
  [type |-> kind, map |-> EmptyMap, val |-> Zero, msg |-> msg]

\* The word for the status in the message of __mul__.
StatusWord(status) ==
  CASE status = "UNDECIDED" -> "undecided"
    [] status = "INCONSISTENT" -> "inconsistent"
    [] status = "UNBOUNDED" -> "unbounded"
    [] OTHER -> "of unknown status"

\* Mutant: an undecided program gives its objective value as well.
LowerExLenient(S, other, lp) ==
  IF ~IsInstance(other, "Gamble")
  THEN ErrorWith("TypeError", "is not a gamble")
  ELSE CHOOSE out \in
         {IF IsFailure(ps) THEN ErrorWith(ps.type, "")
          ELSE IF lp.status \in {"OPTIMAL", "UNDECIDED"} THEN Scalar(lp.obj)
          ELSE ErrorWith("ValueError", StatusWord(lp.status)) :
            ps \in {Pspace(S)}} : TRUE

\* DesirSet.__mul__: the lower expectation of other, lp being what the
\* solver ends with.
LowerEx(S, other, lp) ==
  IF ~IsInstance(other, "Gamble")
  THEN ErrorWith("TypeError", "is not a gamble")
  ELSE CHOOSE out \in
         {IF IsFailure(ps) THEN ErrorWith(ps.type, "")
          ELSE IF lp.status = "OPTIMAL" THEN Scalar(lp.obj)
          ELSE ErrorWith("ValueError", StatusWord(lp.status)) :
            ps \in {Pspace(S)}} : TRUE

\* DesirSet.__pow__: - self.__mul__(- other)
UpperEx(S, other, lp) ==
  CHOOSE out \in
    {IF IsFailure(r) THEN r ELSE Scalar(FNeg(r.val)) :
       r \in {LowerEx(S, IF other.type = "Scalar"
                          THEN Scalar(FNeg(other.val)) ELSE Neg(other), lp)}} :
    TRUE

PSetLowerPr ==
  /\ Cardinality(dset) < MaxPrevCones
  /\ \E gm \in PrevGambles, v \in PrevValues :
       \E o \in {SetLowerPr(dset, gm, v)} :
         DesirStep("set_lower_pr", gm, v, o)

PSetUpperPr ==
  /\ Cardinality(dset) < MaxPrevCones
  /\ \E gm \in PrevGambles, v \in PrevValues :
       \E o \in {SetUpperPr(dset, gm, v)} :
         DesirStep("set_upper_pr", gm, v, o)

\* What the solver ends with.
LPResults == [status : LPStatuses, obj : ObjValues]

PLowerEx ==
  \E o \in {[other |-> other, lp |-> lp, out |-> LowerEx(dset, other, lp)] :
             other \in ExPool, lp \in LPResults} :
    DesirStep("lower_ex", o.other, o.lp, Outcome(dset, o.out))

PUpperEx ==
  \E o \in {[other |-> other, lp |-> lp, out |-> UpperEx(dset, other, lp)] :
             other \in ExPool, lp \in LPResults} :
    DesirStep("upper_ex", o.other, o.lp, Outcome(dset, o.out))

InitPrev ==
  /\ \E data \in {{}, Labels} : dset = DesirSetInit(data)
  /\ dres = NoDRes
  /\ dpre = {}
  /\ IdleAlg
  /\ IdleHash
  /\ IdleCredal
  /\ IdleFunc
  /\ IdleLoop

NextPrev ==
  \/ PSetLowerPr
  \/ PSetUpperPr
  \/ PLowerEx
  \/ PUpperEx

SpecPrev == InitPrev /\ [][NextPrev]_vars

(***************************************************************************)
(* Hashing and set membership of vectors (vectors.py, functions.py)         *)
(*                                                                          *)
(* Here a mapping is kept as the sequence of its items in the iteration     *)
(* order of _mapping, which for a dict is the order of insertion.           *)
(***************************************************************************)
\* The values a mapping literal is written with: 1/2, 2/4 and 1.
RawVals == {<<1, 2>>, <<2, 4>>, <<1, 1>>}

\* Every way to write a mapping over a subset of Labels: the sequences of
\* (label, value) pairs with distinct labels.
EntryLists ==
  UNION {{s \in [1..n -> Labels \X RawVals] :
            \A i, j \in 1..n : i # j => s[i][1] # s[j][1]} :
         n \in 0..Cardinality(Labels)}

\* Function.__init__ seen as items: the dict comprehension inserts the
\* items in the order the given mapping yields them.
ItemsInit(s) == [i \in 1..Len(s) |-> <<s[i][1], MakeRational(s[i][2])>>]

ItemSet(items) == {items[i] : i \in 1..Len(items)}

\* Mutant: the hash of Function.__hash__, which takes the frozenset of items.
FunctionHash(items) == ItemSet(items)

\* Vector.__hash__: the hash of the tuple of items; equal tuples hash alike
\* and no more is guaranteed.
VectorHash(items) == items

\* Mapping.__eq__: the same items, whatever their order.
MappingEq(i1, i2) == ItemSet(i1) = ItemSet(i2)

\* set.add: an element is present when one with the same hash is equal to it.
SetAdd(S, v) ==
  IF \E e \in S : VectorHash(e) = VectorHash(v) /\ MappingEq(e, v)
  THEN S
  ELSE S \cup {v}

\* A Vector (or Gamble) is built from a mapping literal and put in a set.
Insert ==
  /\ Cardinality(entries) < MaxEntries
  /\ \E s \in EntryLists :
       /\ hres' = ItemsInit(s)
       /\ entries' = SetAdd(entries, ItemsInit(s))
  /\ UNCHANGED <<algVars, desirVars, credalVars, funcVars, loopVars>>

\* set.discard
Remove ==
  /\ \E e \in entries :
       /\ entries' = entries \ {e}
       /\ hres' = <<>>
  /\ UNCHANGED <<algVars, desirVars, credalVars, funcVars, loopVars>>

InitHash ==
  /\ entries = {}
  /\ hres = <<>>
  /\ IdleAlg
  /\ IdleDesir
  /\ IdleCredal
  /\ IdleFunc
  /\ IdleLoop

NextHash ==
  \/ Insert
  \/ Remove

SpecHash == InitHash /\ [][NextHash]_vars

(***************************************************************************)
(* Mass functions and credal sets (vectors.py, massfuncs.py,                *)
(* credalsets.py)                                                           *)
(*                                                                          *)
(* kset is the set of probability mass functions of a CredalSet and kres    *)
(* the last call with what it returned or raised.                           *)
(***************************************************************************)
\* A credal set is given members while it has fewer than MaxMembers.
MaxMembers == 5

\* sum(...) of the values of m at the arguments S.
RECURSIVE SumOf(_, _)
SumOf(m, S) ==
  IF S = {} THEN Zero
  ELSE CHOOSE total \in
         UNION {{FAdd(m[x], SumOf(m, T)) : T \in {S \ {x}}} :
                x \in {CHOOSE y \in S : TRUE}} : TRUE

VectorInit(m) == FunctionInit("Vector", m)

\* Vector.mass
Mass(self) == SumOf(self.map, DOMAIN self.map)

\* Vector.sum_normalized
SumNormalized(self) ==
  CHOOSE out \in {IF mass = Zero THEN NoneObj ELSE TrueDiv(self, Scalar(mass)) :
                    mass \in {Mass(self)}} : TRUE

\* Vector.is_nonnegative
IsNonnegative(self) == \A x \in DOMAIN self.map : FLe(Zero, self.map[x])

\* UMFunc.__init__ on a mapping, for the class cls of the instance.
UMFuncInit(cls, data) ==
  CHOOSE out \in
    {IF umfunc = NoneObj THEN Failure("ValueError")
     ELSE IF IsFailure(umfunc) THEN umfunc
     ELSE FunctionInit(cls, Restrict(umfunc, Support(umfunc)).map) :
       umfunc \in {SumNormalized(VectorInit(data))}} : TRUE

\* PMFunc.__init__ on a mapping.
PMFuncInit(data) ==
  CHOOSE out \in
    {IF IsFailure(um) THEN um
     ELSE IF ~IsNonnegative(um) THEN Failure("ValueError")
     ELSE um : um \in {UMFuncInit("PMFunc", data)}} : TRUE

\* PMFunc({x}): the mass is spread uniformly over a set, here of one state.
Dirac(x) == PMFuncInit([y \in {x} |-> Frac(1, Cardinality({x}))])

\* UMFunc.__or__ of a PMFunc: type(self)(Vector(self) | other)
PMFuncOr(self, other) ==
  PMFuncInit(Restrict(VectorInit(self.map), other).map)

\* Mutant: the mass function is not conditioned on the domain of the gamble.
PMFuncTimesPlain(self, other) ==
  CHOOSE out \in
    {Scalar(SumOf([x \in pspace |-> FMul(self.map[x], GetItem(other.map, x))],
                  pspace)) :
       pspace \in {Domain(self) \cap Domain(other)}} : TRUE

\* UMFunc.__mul__ with a gamble: the sum over the common domain, which is
\* conditioned on (for no state at all, the empty sum 0).
PMFuncTimes(self, other) ==
  CHOOSE out \in
    UNION {{IF pspace = {} THEN Scalar(Zero)
            ELSE IF IsFailure(cond) THEN cond
            ELSE Scalar(SumOf([x \in pspace |->
                                 FMul(GetItem(cond.map, x), GetItem(other.map, x))],
                              pspace)) :
              cond \in {PMFuncOr(self, pspace)}} :
           pspace \in {Domain(self) \cap Domain(other)}} : TRUE

CredalObj(K) == [type |-> "CredalSet", set |-> K]

\* CredalSet.__init__ on a set of states: the vacuous credal set.
CredalVacuous(S) == {Dirac(x) : x \in S}

\* CredalSet.__init__ on a set of mappings.
CredalInit(data) ==
  CHOOSE out \in
    {IF \E p \in K : IsFailure(p) THEN CHOOSE p \in K : IsFailure(p)
     ELSE CredalObj(K) : K \in {{PMFuncInit(m) : m \in data}}} : TRUE

\* Mutant: the mapping is divided by its sum and added, whatever its signs.
CredalAddAnySign(K, data) ==
  CHOOSE o \in {IF IsFailure(p) THEN Outcome(K, p)
                ELSE Outcome(K \cup {p}, NoneObj) :
                  p \in {UMFuncInit("PMFunc", data)}} : TRUE

\* CredalSet.add
CredalAdd(K, data) ==
  CHOOSE o \in {IF IsFailure(p) THEN Outcome(K, p)
                ELSE Outcome(K \cup {p}, NoneObj) : p \in {PMFuncInit(data)}} : TRUE

\* CredalSet.discard
CredalDiscard(K, data) ==
  CHOOSE o \in {IF IsFailure(p) THEN Outcome(K, p)
                ELSE Outcome(K \ {p}, NoneObj) : p \in {PMFuncInit(data)}} : TRUE

\* CredalSet.__or__ with an event: what conditioning a member raises is
\* raised; a member that is None would give the vacuous credal set.
CredalOr(K, other) ==
  CHOOSE out \in
    {IF \E p \in cond : IsFailure(p) /\ p # NoneObj
     THEN CHOOSE p \in cond : IsFailure(p) /\ p # NoneObj
     ELSE IF \E p \in cond : p = NoneObj
     THEN CredalObj(CredalVacuous(other))
     ELSE CredalInit({p.map : p \in cond}) :
       cond \in {{PMFuncOr(p, other) : p \in K}}} : TRUE

\* min or max of the products of the members with the gamble.
Extreme(K, other, least) ==
  CHOOSE out \in
    {IF \E v \in vals : IsFailure(v) THEN CHOOSE v \in vals : IsFailure(v)
     ELSE CHOOSE num \in
            {Scalar(IF least THEN FMin(nums) ELSE FMax(nums)) :
               nums \in {{v.val : v \in vals}}} : TRUE :
       vals \in {{PMFuncTimes(p, other) : p \in K}}} : TRUE

\* CredalSet.__mul__; no name Error is defined in credalsets.py, so that
\* raise Error(...) raises NameError.
CredalTimes(K, other) ==
  IF ~IsInstance(other, "Gamble") THEN Failure("TypeError")
  ELSE IF K = {} THEN Failure("NameError")
  ELSE Extreme(K, other, TRUE)

\* CredalSet.__pow__
CredalPow(K, other) ==
  IF ~IsInstance(other, "Gamble") THEN Failure("TypeError")
  ELSE IF K = {} THEN Failure("NameError")
  ELSE Extreme(K, other, FALSE)

\* The members of the doctests of credalsets.py.
PmfP == [a |-> <<3, 100>>, b |-> <<7, 100>>, c |-> <<9, 10>>]
PmfQ == [a |-> <<7, 100>>, b |-> <<3, 100>>, c |-> <<9, 10>>]

\* The mappings that mass functions are built from.
MassPool ==
  {PmfP, PmfQ, [a |-> One],
   [a |-> IntVal(-1), b |-> IntVal(2)], [a |-> IntVal(-1), b |-> IntVal(-1)],
   [a |-> IntVal(-1), b |-> One], [a |-> IntVal(2), b |-> Zero]}

\* CredalSet.pspace: frozenset.union() of no domain is a TypeError.
CredalPspace(K) ==
  IF K = {} THEN Failure("TypeError")
  ELSE SetObj(UNION {Domain(p) : p \in K})

\* The matrix of discard_redundant: the row [1] + [p[x] for x in pspace] of
\* every member.
RedundantMatrix(K, pspace) ==
  [i \in 1..Len(K) |->
     <<One>> \o [j \in 1..Len(pspace) |-> GetItem(K[i].map, pspace[j])]]

\* The k-th coordinate of the point of a row, 0 beyond its last.
Coord(row, k) == IF k + 1 <= Len(row) THEN row[k + 1] ELSE Zero

FSub(p, q) == FAdd(p, FNeg(q))

\* Twice the signed area of the triangle of the points of three rows, in
\* their first two coordinates.  The rows are mass functions on at most
\* three states, which their first two coordinates tell apart.
Orient(u, v, w) ==
  FSub(FMul(FSub(Coord(v, 1), Coord(u, 1)), FSub(Coord(w, 2), Coord(u, 2))),
       FMul(FSub(Coord(v, 2), Coord(u, 2)), FSub(Coord(w, 1), Coord(u, 1))))

\* The point of row lies on the segment between those of u and v.
OnSegment(row, u, v) ==
  /\ Orient(u, v, row) = Zero
  /\ FLe(FAdd(FMul(FSub(Coord(row, 1), Coord(u, 1)),
                   FSub(Coord(row, 1), Coord(v, 1))),
              FMul(FSub(Coord(row, 2), Coord(u, 2)),
                   FSub(Coord(row, 2), Coord(v, 2)))), Zero)

\* The point of row lies in the triangle of those of u, v and w.
InTriangle(row, u, v, w) ==
  /\ Orient(u, v, w) # Zero
  /\ \E o \in {<<Orient(u, v, row), Orient(v, w, row), Orient(w, u, row)>>} :
       \/ \A i \in 1..3 : FLe(Zero, o[i])
       \/ \A i \in 1..3 : FLe(o[i], Zero)

\* Mutant: a row is redundant only if it is in a triangle of others and on
\* none of its sides.
CanonicalizeInterior(mat) ==
  {i - 1 : i \in {i \in 1..Len(mat) :
     \E j, k, l \in (1..Len(mat)) \ {i} :
       /\ Orient(mat[j], mat[k], mat[l]) # Zero
       /\ \E o \in {<<Orient(mat[j], mat[k], mat[i]),
                      Orient(mat[k], mat[l], mat[i]),
                      Orient(mat[l], mat[j], mat[i])>>} :
            \/ \A n \in 1..3 : FLt(Zero, o[n])
            \/ \A n \in 1..3 : FLt(o[n], Zero)}}

\* mat.canonicalize() on generators that are all points: the places, from
\* 0, of the redundant rows, those that are a convex combination of other
\* rows.  The rows of different members differ, and no row is an implicit
\* linearity.
Canonicalize(mat) ==
  {i - 1 : i \in {i \in 1..Len(mat) :
     \E j, k \in (1..Len(mat)) \ {i} :
       \/ OnSegment(mat[i], mat[j], mat[k])
       \/ \E l \in (1..Len(mat)) \ {i} :
            InTriangle(mat[i], mat[j], mat[k], mat[l])}}

\* for i in red: self.discard(K[i])
RECURSIVE DiscardListed(_, _, _)
DiscardListed(S, K, red) ==
  IF red = {} THEN Outcome(S, NoneObj)
  ELSE CHOOSE o \in
         UNION {{IF d.out.type = "None"
                 THEN DiscardListed(d.set, K, red \ {i})
                 ELSE d :
                   d \in {CredalDiscard(S, K[i + 1].map)}} :
                i \in {CHOOSE j \in red : TRUE}} : TRUE

\* CredalSet.discard_redundant
DiscardRedundant(S) ==
  CHOOSE o \in
    {IF IsFailure(ps) THEN Outcome(S, ps)
     ELSE CHOOSE d \in
            {DiscardListed(S, K, Canonicalize(RedundantMatrix(K, ListOf(ps.set)))) :
               K \in {ListOf(S)}} : TRUE :
       ps \in {CredalPspace(S)}} : TRUE

\* The events that are conditioned on.
Events == {{"a", "b"}, {"b", "c"}, {"c"}}

\* What expectations are asked of: three gambles and a number.
GambleAB == [a |-> <<-1, 1>>, b |-> <<1, 1>>]
CredalExPool ==
  {GambleInit(GambleABC), GambleInit(GambleAB), GambleInit(Indicator({"c"})),
   Scalar(One)}

KRes(op, arg, out) == [op |-> op, arg |-> arg, out |-> out]

CredalStep(op, arg, o) ==
  /\ kset' = o.set
  /\ kpre' = kset
  /\ kres' = KRes(op, arg, o.out)
  /\ UNCHANGED <<algVars, hashVars, desirVars, funcVars, loopVars>>

\* PMFunc(data)
KMakePMF ==
  \E o \in {[data |-> data, out |-> PMFuncInit(data)] : data \in MassPool} :
    CredalStep("pmf", o.data, Outcome(kset, o.out))

KAdd ==
  /\ Cardinality(kset) < MaxMembers
  /\ \E data \in MassPool :
       \E o \in {CredalAdd(kset, data)} : CredalStep("add", data, o)

KDiscard ==
  \E data \in {[a |-> One], PmfP} :
    \E o \in {CredalDiscard(kset, data)} : CredalStep("discard", data, o)

\* K | event
KCondition ==
  \E event \in Events :
    \E out \in {CredalOr(kset, event)} :
      CredalStep("condition", event, Outcome(kset, out))

\* K * other
KLower ==
  \E other \in CredalExPool :
    \E out \in {CredalTimes(kset, other)} :
      CredalStep("lower", other, Outcome(kset, out))

\* K ** other
KUpper ==
  \E other \in CredalExPool :
    \E out \in {CredalPow(kset, other)} :
      CredalStep("upper", other, Outcome(kset, out))

\* K.discard_redundant()
KDiscardRedundant ==
  \E o \in {DiscardRedundant(kset)} :
    CredalStep("discard_redundant", EmptyMap, o)

InitCredal ==
  /\ \E data \in {{}, Labels} : kset = CredalVacuous(data)
  /\ kres = NoKRes
  /\ kpre = {}
  /\ IdleAlg
  /\ IdleHash
  /\ IdleDesir
  /\ IdleFunc
  /\ IdleLoop

NextCredal ==
  \/ KMakePMF
  \/ KAdd
  \/ KDiscard
  \/ KCondition
  \/ KLower
  \/ KUpper
  \/ KDiscardRedundant

SpecCredal == InitCredal /\ [][NextCredal]_vars

(***************************************************************************)
(* Duality: get_credal and get_desir (desirs.py, credalsets.py)             *)
(*                                                                          *)
(* Both hand the rows [0] + [v[x] for x in pspace] of their members to cdd  *)
(* as inequalities and ask for the generators of the cone that these        *)
(* describe.  A cone has its extreme rays as generators, each fixed up to a *)
(* positive factor, if it holds no line; if it holds lines, the generators  *)
(* are a basis of the lines and one ray, any of a family, for every extreme *)
(* ray of what is left.  The cone {0} has the origin as its generator.      *)
(* Possibility spaces have at most three states: a cone in fewer            *)
(* coordinates is looked at in three, the missing ones held at 0.           *)
(***************************************************************************)
\* The rows are scaled to whole numbers without a common factor.
RECURSIVE GCDOf(_, _)
GCDOf(v, k) == IF k = 0 THEN 0 ELSE GCD(Abs(v[k]), GCDOf(v, k - 1))

Primitive(v) ==
  CHOOSE w \in {IF d = 0 THEN v ELSE [j \in 1..Len(v) |-> v[j] \div d] :
                  d \in {GCDOf(v, Len(v))}} : TRUE

\* The row in three coordinates.
Padded(v) == [j \in 1..3 |-> IF j <= Len(v) THEN v[j] ELSE 0]

IDot(u, v) == u[1] * v[1] + u[2] * v[2] + u[3] * v[3]

Cross(u, v) ==
  Primitive(<<u[2] * v[3] - u[3] * v[2],
              u[3] * v[1] - u[1] * v[3],
              u[1] * v[2] - u[2] * v[1]>>)

INeg(v) == [j \in 1..Len(v) |-> -v[j]]

ZeroVec == <<0, 0, 0>>

UnitVec(k) == [j \in 1..3 |-> IF j = k THEN 1 ELSE 0]

\* The rows of the inequalities, and those that hold a missing coordinate
\* at 0.
ConeRows(mat, n) ==
  {Primitive(Padded(IntRow(Tail(mat[i])))) : i \in 1..Len(mat)}
    \cup UNION {{UnitVec(k), INeg(UnitVec(k))} : k \in (n + 1)..3}

InCone(rows, v) == \A r \in rows : IDot(r, v) >= 0

\* The dimension of the span of the rows.
RowRank(rows) ==
  IF \E r1, r2, r3 \in rows : IDot(Cross(r1, r2), r3) # 0 THEN 3
  ELSE IF \E r1, r2 \in rows : Cross(r1, r2) # ZeroVec THEN 2
  ELSE IF \E r1 \in rows : r1 # ZeroVec THEN 1
  ELSE 0

\* A basis of the lines of the cone: of the vectors on which every row is 0.
LineBasis(rows) ==
  CASE RowRank(rows) = 3 -> {}
    [] RowRank(rows) = 2 ->
         {CHOOSE l \in {Cross(r1, r2) : r1, r2 \in rows} : l # ZeroVec}
    [] RowRank(rows) = 1 ->
         CHOOSE B \in SUBSET {Cross(r, UnitVec(k)) : r \in rows, k \in 1..3} :
           /\ Cardinality(B) = 2
           /\ \A u, v \in B : u # v => Cross(u, v) # ZeroVec
    [] OTHER -> {UnitVec(k) : k \in 1..3}

\* The extreme rays of the cone, or of its part that is orthogonal to its
\* lines: the vectors of the cone on which as many independent rows are 0
\* as a ray allows.
ExtremeRays(rows) ==
  CASE RowRank(rows) = 3 ->
         {v \in UNION {{Cross(r1, r2), INeg(Cross(r1, r2))} : r1, r2 \in rows} :
            v # ZeroVec /\ InCone(rows, v)}
    [] RowRank(rows) = 2 ->
         {v \in UNION {{Cross(r, l), INeg(Cross(r, l))} :
                         r \in rows, l \in LineBasis(rows)} :
            v # ZeroVec /\ InCone(rows, v)}
    [] RowRank(rows) = 1 ->
         {v \in rows : InCone(rows, v)}
    [] OTHER -> {}

\* Polyhedron(mat).get_generators() for n coordinates: the rows of rays,
\* those of them that are in lin_set, and the origin if there is no other
\* row.
GetGenerators(mat, n) ==
  CHOOSE gen \in
    UNION {{[ext |-> IF rays \cup lin = {} THEN {SubSeq(ZeroVec, 1, n)}
                     ELSE {SubSeq(v, 1, n) : v \in rays \cup lin},
             lin |-> {SubSeq(v, 1, n) : v \in lin}] :
              rays \in {ExtremeRays(rows)}, lin \in {LineBasis(rows)}} :
           rows \in {ConeRows(mat, n)}} : TRUE

\* The matrix [0] + [v[x] for x in pspace] for v in the list V.
DualMatrix(V, pspace) ==
  [i \in 1..Len(V) |->
     <<Zero>> \o [j \in 1..Len(pspace) |-> GetItem(V[i].map, pspace[j])]]

\* {pspace[j-1]: ext[i][j] for j in range(1, ext.col_size)}
RowMapping(pspace, v) ==
  [x \in {pspace[j] : j \in 1..Len(pspace)} |->
     IntVal(v[CHOOSE j \in 1..Len(pspace) : pspace[j] = x])]

\* The mappings of the rows of ext, and of the negatives of those in
\* lin_set.
GeneratorMappings(pspace, gen) ==
  {RowMapping(pspace, v) : v \in gen.ext}
    \cup {RowMapping(pspace, INeg(v)) : v \in gen.lin}

\* The matrix of get_credal: the first tiers of the cones.
GetCredalMatrix(D, pspace) == DualMatrix(D, pspace)

\* DesirSet.get_credal
GetCredal(S) ==
  CHOOSE out \in
    UNION {{IF IsFailure(ps) THEN ps
            ELSE CredalInit(GeneratorMappings(pspace,
                   GetGenerators(GetCredalMatrix(ListOf(S), pspace),
                                 Len(pspace)))) :
              pspace \in {IF IsFailure(ps) THEN <<>> ELSE ListOf(ps.set)}} :
           ps \in {Pspace(S)}} : TRUE

DesirObj(S) == [type |-> "DesirSet", set |-> S]

\* DesirSet(set of rays): every ray is made the cone that it generates.
DesirSetOfRays(data) ==
  CHOOSE out \in
    {IF \E c \in S : IsFailure(c) THEN CHOOSE c \in S : IsFailure(c)
     ELSE DesirObj(S) : S \in {{Cone(<<m>>) : m \in data}}} : TRUE

\* CredalSet.get_desir
GetDesir(K) ==
  CHOOSE out \in
    UNION {{IF IsFailure(ps) THEN ps
            ELSE DesirSetOfRays(GeneratorMappings(pspace,
                   GetGenerators(DualMatrix(ListOf(K), pspace),
                                 Len(pspace)))) :
              pspace \in {IF IsFailure(ps) THEN <<>> ELSE ListOf(ps.set)}} :
           ps \in {CredalPspace(K)}} : TRUE

\* The program of __mul__ for a gamble whose domain holds the possibility
\* space: maximise c with other - c - sum(w * ray) >= 0 and w >= 0.  By
\* duality its optimum is the least expectation of other under the mass
\* functions p >= 0 with p * ray >= 0 for every ray, which is taken at an
\* extreme ray of their cone; if there is no such mass function, c has no
\* bound.
MulProgram(S, other) ==
  CHOOSE lp \in
    UNION {{IF rays = {} THEN [status |-> "UNBOUNDED", obj |-> Zero]
            ELSE [status |-> "OPTIMAL",
                  obj |-> FMin({FDiv(SumOf([j \in 1..Len(pspace) |->
                                              FMul(IntVal(v[j]),
                                                   GetItem(other.map, pspace[j]))],
                                           1..Len(pspace)),
                                     IntVal(v[1] + v[2] + v[3])) : v \in rays})] :
              rays \in {ExtremeRays(ConeRows(
                          DualMatrix(ListOf(S), pspace)
                            \o [i \in 1..Len(pspace) |->
                                  <<Zero>> \o [j \in 1..Len(pspace) |->
                                                 IF i = j THEN One ELSE Zero]],
                          Len(pspace)))}} :
           pspace \in {ListOf(Pspace(S).set)}} : TRUE

\* D * other
DesirTimes(S, other) ==
  IF IsFailure(Pspace(S)) \/ ~IsInstance(other, "Gamble")
  THEN LowerEx(S, other, [status |-> "UNDECIDED", obj |-> Zero])
  ELSE LowerEx(S, other, MulProgram(S, other))

\* D ** other
DesirPow(S, other) ==
  IF IsFailure(Pspace(S)) \/ ~IsInstance(other, "Gamble")
  THEN UpperEx(S, other, [status |-> "UNDECIDED", obj |-> Zero])
  ELSE UpperEx(S, other, MulProgram(S, Neg(other)))

\* The sets that are taken through the duality have at most MaxDualCones
\* cones.
MaxDualCones == 4

X1 == [a |-> One, b |-> IntVal(-1)]
X2 == [a |-> One, b |-> IntVal(2)]

\* The generators of the cones, one generator each.
DualGenerators ==
  {Indicator({x}) : x \in Labels} \cup {G1, G2, X1, X2}

\* The sets of cones of one generator each whose rays span their
\* possibility space: the cone that get_credal asks cdd about holds no line
\* then, and its generators are fixed.
DualFamilies ==
  {S \in {{Cone(<<m>>) : m \in ms} :
            ms \in {T \in SUBSET DualGenerators : Cardinality(T) <= MaxDualCones}} :
     S # {} /\
     \E pspace \in {ListOf(Pspace(S).set)} :
       RowRank(ConeRows(DualMatrix(ListOf(S), pspace), Len(pspace))) = 3}

\* The gambles that the expectations before and after are compared for:
\* those on the three states with values -1, 0 and 1.
DualGambles == {GambleInit(m) : m \in [Labels -> {IntVal(-1), Zero, One}]}

\* K = D.get_credal()
DGetCredal ==
  \E out \in {GetCredal(dset)} :
    DesirStep("get_credal", EmptyMap, Zero, Outcome(dset, out))

\* K.get_desir(), K being the credal set that get_credal returned.
KGetDesirReturned ==
  /\ dres.op = "get_credal"
  /\ dres.out.type = "CredalSet"
  /\ \E o \in {GetDesir(dres.out.set)} :
       /\ kset' = dres.out.set
       /\ kpre' = dres.out.set
       /\ kres' = KRes("get_desir", EmptyMap, o)
       /\ UNCHANGED <<algVars, hashVars, desirVars, funcVars, loopVars>>

\* D * other and D ** other
DExpectation ==
  \E c \in {[op |-> "lower_ex", other |-> other, out |-> DesirTimes(dset, other)] :
              other \in {GambleInit(GambleABC)}}
           \cup {[op |-> "upper_ex", other |-> other, out |-> DesirPow(dset, other)] :
              other \in {GambleInit(GambleABC)}} :
    DesirStep(c.op, c.other, Zero, Outcome(dset, c.out))

InitDual ==
  /\ dset \in DualFamilies
  /\ dres = NoDRes
  /\ dpre = {}
  /\ IdleAlg
  /\ IdleHash
  /\ IdleCredal
  /\ IdleFunc
  /\ IdleLoop

NextDual ==
  \/ DGetCredal
  \/ KGetDesirReturned
  \/ DExpectation

SpecDual == InitDual /\ [][NextDual]_vars

(***************************************************************************)
(* Function objects and their mutability (functions.py, vectors.py,         *)
(* gambles.py)                                                              *)
(*                                                                          *)
(* fobj is one Function, Vector or Gamble with its _frozen flag, fres the   *)
(* last call on it: its argument, what it returned or raised, and the       *)
(* object as it was before the call.                                        *)
(***************************************************************************)
\* The values of the mappings and of the item assignments are -1..MaxItem.
MaxItem == 2

ItemLabels == {"a", "b"}
ItemValues == {IntVal(v) : v \in (-1)..MaxItem} \cup {<<2, 4>>}
ItemMaps ==
  UNION {[D -> {IntVal(v) : v \in (-1)..MaxItem}] : D \in SUBSET ItemLabels}

\* What "|" is given: sets of labels, and a number and a gamble.
OrPool ==
  {SetObj(S) : S \in SUBSET Labels} \cup {Scalar(One), GambleInit(Indicator({"a"}))}

\* Function.__init__(mapping, frozen); Gamble.__init__ has no frozen
\* parameter and leaves the default.
FunctionNew(cls, mapping, frozen) ==
  [type |-> cls,
   map |-> [x \in DOMAIN mapping |-> MakeRational(mapping[x])],
   val |-> Zero,
   frozen |-> frozen]

WithMap(self, m) ==
  [type |-> self.type, map |-> m, val |-> Zero, frozen |-> self.frozen]

\* Mutant: the flag is not looked at.
SetItemAnyway(self, arg, value) ==
  Outcome(WithMap(self, [x \in DOMAIN self.map \cup {arg} |->
                           IF x = arg THEN MakeRational(value) ELSE self.map[x]]),
          NoneObj)

\* Function.__setitem__
SetItem(self, arg, value) ==
  IF self.frozen
  THEN Outcome(self, Failure("TypeError"))
  ELSE Outcome(WithMap(self, [x \in DOMAIN self.map \cup {arg} |->
                                IF x = arg THEN MakeRational(value) ELSE self.map[x]]),
               NoneObj)

\* Function.__delitem__; dict.__delitem__ raises KeyError for a missing key.
DelItem(self, arg) ==
  IF self.frozen
  THEN Outcome(self, Failure("TypeError"))
  ELSE IF arg \notin DOMAIN self.map
  THEN Outcome(self, Failure("KeyError"))
  ELSE Outcome(WithMap(self, [x \in DOMAIN self.map \ {arg} |-> self.map[x]]),
               NoneObj)

\* Function.freeze
Freeze(self) ==
  [type |-> self.type, map |-> self.map, val |-> Zero, frozen |-> TRUE]

\* Function.thaw
Thaw(self) ==
  [type |-> self.type, map |-> self.map, val |-> Zero, frozen |-> FALSE]

\* Mapping.__eq__: the items of the two mappings are compared.
FunctionEq(self, other) == BoolObj(self.map = other.map)

\* Mutant: arguments that are no sets are treated as the empty set.
VectorOrLenient(self, other) ==
  IF other.type = "frozenset"
  THEN Restrict(self, other.set)
  ELSE Restrict(self, {})

\* Vector.__or__ with its test of the argument.
VectorOr(self, other) ==
  IF other.type = "frozenset"
  THEN Restrict(self, other.set)
  ELSE Failure("TypeError")

\* Mutant: the shift is left out.
ScaledOnly(self) ==
  CHOOSE out \in
    {IF b[2] = b[1] THEN Sub(self, Scalar(b[1]))
     ELSE TrueDiv(self, Scalar(FAdd(b[2], FNeg(b[1])))) :
       b \in {Bounds(self)}} : TRUE

\* Gamble.scaled_shifted
ScaledShifted(self) ==
  CHOOSE out \in
    {IF b[2] = b[1] THEN Sub(self, Scalar(b[1]))
     ELSE CHOOSE q \in {TrueDiv(shifted, Scalar(FAdd(b[2], FNeg(b[1])))) :
                          shifted \in {Sub(self, Scalar(b[1]))}} : TRUE :
       b \in {Bounds(self)}} : TRUE

FRes(op, arg, out, pre) == [op |-> op, arg |-> arg, out |-> out, pre |-> pre]

FuncStep(op, arg, o) ==
  /\ fobj' = o.set
  /\ fres' = FRes(op, arg, o.out, fobj)
  /\ UNCHANGED <<algVars, hashVars, desirVars, credalVars, loopVars>>

\* self[arg] = value
FSetItem ==
  \E c \in {[arg |-> arg, value |-> value, o |-> SetItem(fobj, arg, value)] :
              arg \in ItemLabels, value \in ItemValues} :
    FuncStep("setitem", [arg |-> c.arg, value |-> c.value], c.o)

\* del self[arg]
FDelItem ==
  \E c \in {[arg |-> arg, o |-> DelItem(fobj, arg)] : arg \in ItemLabels} :
    FuncStep("delitem", [arg |-> c.arg, value |-> Zero], c.o)

FFreeze ==
  \E o \in {Freeze(fobj)} : FuncStep("freeze", NoneObj, Outcome(o, NoneObj))

FThaw ==
  \E o \in {Thaw(fobj)} : FuncStep("thaw", NoneObj, Outcome(o, NoneObj))

\* self == other, for another function of any content and flag
FEquals ==
  \E c \in {[other |-> other, out |-> FunctionEq(fobj, other)] :
              other \in {FunctionNew("Function", m, fr) :
                           m \in {fobj.map, EmptyMap, Indicator({"a"})},
                           fr \in BOOLEAN}} :
    FuncStep("eq", c.other, Outcome(fobj, c.out))

\* self | other
FRestrict ==
  /\ fobj.type \in {"Vector", "Gamble"}
  /\ \E c \in {[other |-> other, out |-> VectorOr(fobj, other)] :
                 other \in OrPool} :
       FuncStep("or", c.other, Outcome(fobj, c.out))

\* self.scaled_shifted()
FScaledShifted ==
  /\ fobj.type = "Gamble"
  /\ \E out \in {ScaledShifted(fobj)} :
       FuncStep("scaled_shifted", NoneObj, Outcome(fobj, out))

\* Function(mapping), Function(mapping, frozen), Vector(...), Gamble(mapping)
InitFunc ==
  /\ \E mapping \in ItemMaps :
       \E c \in {[cls |-> "Function", given |-> "default", frozen |-> TRUE],
                 [cls |-> "Function", given |-> "True", frozen |-> TRUE],
                 [cls |-> "Function", given |-> "False", frozen |-> FALSE],
                 [cls |-> "Vector", given |-> "default", frozen |-> TRUE],
                 [cls |-> "Vector", given |-> "False", frozen |-> FALSE],
                 [cls |-> "Gamble", given |-> "default", frozen |-> TRUE]} :
         /\ fobj = FunctionNew(c.cls, mapping, c.frozen)
         /\ fres = FRes("init", [arg |-> c.given, value |-> Zero], NoneObj, NoneObj)
  /\ IdleAlg
  /\ IdleHash
  /\ IdleDesir
  /\ IdleCredal
  /\ IdleLoop

NextFunc ==
  \/ FSetItem
  \/ FDelItem
  \/ FFreeze
  \/ FThaw
  \/ FEquals
  \/ FRestrict
  \/ FScaledShifted

SpecFunc == InitFunc /\ [][NextFunc]_vars

(***************************************************************************)
(* The iteration of apl, one linear program at a time (desirs.py)           *)
(*                                                                          *)
(* aplst is the call of apl() on the set S: the possibility space, the set  *)
(* A of the coming round and of the round before, the tau of the last       *)
(* linear program, how many have been solved, and what was returned.  lps   *)
(* is the solver's answer to the program of every set A that a round can    *)
(* have, which does not depend on when it is asked.                         *)
(***************************************************************************)
\* The sets that apl() is called on have at most MaxAplCones cones.
MaxAplCones == 3

\* No call solves MaxAplRounds linear programs; a count that reached it
\* would stay there.
MaxAplRounds == 4

AplCones ==
  DesirSetInit(Labels) \cup {Cone(<<G1>>), Cone(<<G2>>), Cone(<<G3>>)}
    \cup SetUpperPr({}, IndAB, Zero).set \cup SetLowerPr({}, IndAB, Zero).set
    \cup SetUpperPr({}, Indicator({"a"}), Zero).set

AplSets == {S \in SUBSET AplCones : Cardinality(S) <= MaxAplCones}

\* Mutant: the next round looks at all the states of this one again.
AplKeep(tau) ==
  SetObj({t[1] : t \in tau})

\* sum(Gamble(I[k]) for k if tau[k] == 1).support(): the states whose tau
\* is 1; the sum of no gamble is the int 0, which has no support().
AplShrink(tau) ==
  IF \A t \in tau : t[2] # 1
  THEN Failure("AttributeError")
  ELSE SetObj({t[1] : t \in {u \in tau : u[2] = 1}})

AplDone(st, out) == [st EXCEPT !.phase = "done", !.out = out]

\* LinProg(mat).solve() for the program of each nonempty set A of states
\* of S.
AplPrograms(S) ==
  CHOOSE lps \in
    {[A \in IF IsFailure(ps) THEN {} ELSE (SUBSET ps.set) \ {{}} |->
        AplProgram(S, A)] : ps \in {Pspace(S)}} : TRUE

\* One pass of the body of the while loop, after the linear program lp.
AplBody(st, lp) ==
  CHOOSE nxt \in
    {IF lp.status # "OPTIMAL" THEN AplDone(solved, Failure("ValueError"))
     ELSE IF \A t \in solved.tau : t[2] = 0 THEN AplDone(solved, BoolObj(TRUE))
     ELSE IF \A t \in solved.tau : t[2] # 0 THEN AplDone(solved, BoolObj(FALSE))
     ELSE CHOOSE later \in
            {IF IsFailure(A) THEN AplDone(solved, A)
             ELSE [solved EXCEPT !.A = A.set, !.prev = st.A] :
               A \in {AplShrink(solved.tau)}} : TRUE :
       solved \in {[st EXCEPT !.rounds = st.rounds + 1,
                              !.tau = IF lp.status = "OPTIMAL"
                                      THEN Tau(st.S, st.A, lp) ELSE {}]}} : TRUE

LoopStep(st) ==
  /\ aplst' = st
  /\ UNCHANGED <<algVars, hashVars, desirVars, credalVars, funcVars, strip>>

\* pspace = self.pspace(); A = pspace
AplCall ==
  /\ aplst.phase = "call"
  /\ \E st \in {IF IsFailure(ps)
                THEN AplDone([aplst EXCEPT !.phase = "loop"], ps)
                ELSE [aplst EXCEPT !.phase = "loop", !.space = ps.set,
                                   !.A = ps.set, !.prev = ps.set] :
                  ps \in {Pspace(aplst.S)}} : LoopStep(st)

\* while len(A) > 0: ...; a call that leaves the loop returns None.
AplIterate ==
  /\ aplst.phase = "loop"
  /\ aplst.rounds < MaxAplRounds
  /\ \E st \in {IF aplst.A = {} THEN AplDone(aplst, NoneObj)
                ELSE AplBody(aplst, aplst.lps[aplst.A])} :
       LoopStep(st)

InitApl ==
  /\ \E S \in AplSets :
       aplst = [phase |-> "call", S |-> S, lps |-> AplPrograms(S), space |-> {},
                A |-> {}, prev |-> {}, tau |-> {}, rounds |-> 0, out |-> NoneObj]
  /\ strip = NoLoop
  /\ IdleAlg
  /\ IdleHash
  /\ IdleDesir
  /\ IdleCredal
  /\ IdleFunc

NextApl ==
  \/ AplCall
  \/ AplIterate

SpecApl == InitApl /\ [][NextApl]_vars

\* The interpreter runs a call that has begun until it returns or raises.
SpecAplFair == SpecApl /\ WF_vars(NextApl)

(***************************************************************************)
(* The iteration of feasible(), CONEstrip (mathprog.py)                     *)
(*                                                                          *)
(* strip is the call of feasible() on the family D of polytopes: the list   *)
(* E of the coming round and of the round before, how many linear programs  *)
(* have been solved, the status of the last, and what was returned.  lps holds, for every list E    *)
(* that a round can have, what the body of the loop can make of an optimal  *)
(* point of its program; the solver may return any of the optimal points.   *)
(***************************************************************************)
\* The families that feasible() is called on have at most MaxStripCones
\* polytopes.
MaxStripCones == 3

\* No call solves MaxStripRounds linear programs; a count that reached it
\* would stay there.
MaxStripRounds == 4

VecP == VectorInit([a |-> One])
VecN == VectorInit([a |-> FNeg(One)])
VecQ == VectorInit([b |-> One])
VecM == VectorInit([b |-> FNeg(One)])
VecZ == VectorInit([c |-> One])

\* Polytope(A): the frozenset of the vectors.
StripCones == {{}, {VecP, VecN}, {VecM}, {VecQ, VecZ}, {VecP}, {VecQ, VecM}}

StripFamilies == {D \in SUBSET StripCones : Cardinality(D) <= MaxStripCones}

\* Polytope.domain(): frozenset.union() of no domain is a TypeError.
PolytopeDomain(A) ==
  IF A = {} THEN Failure("TypeError")
  ELSE SetObj(UNION {Domain(v) : v \in A})

\* frozenset.union(*(A.domain() for A in D))
StripCoordinates(D) ==
  IF D = {} \/ \E A \in D : IsFailure(PolytopeDomain(A))
  THEN Failure("TypeError")
  ELSE SetObj(UNION {PolytopeDomain(A).set : A \in D})

\* [[vector for vector in A] for A in D]
StripLists(D) ==
  CHOOSE E \in {[n \in 1..Len(cones) |-> ListOf(cones[n])] :
                  cones \in {ListOf(D)}} : TRUE

\* [v for A in E for v in A]
RECURSIVE Flat(_, _)
Flat(E, k) == IF k = 0 THEN <<>> ELSE Flat(E, k - 1) \o E[k]

\* sum(L[0:n]) for the n-th list of E, counted from 1.
RECURSIVE Offset(_, _)
Offset(E, n) == IF n = 1 THEN 0 ELSE Offset(E, n - 1) + Len(E[n - 1])

\* The rows "for A in E for v in A", each with the place n of its A.
RECURSIVE Places(_, _)
Places(E, k) ==
  IF k = 0 THEN <<>>
  ELSE Places(E, k - 1) \o [m \in 1..Len(E[k]) |-> [n |-> k, v |-> E[k][m]]]

\* The matrix of a round.  A linear row holds with equality: it is there
\* with its negative.
StripMatrix(E, coordinates) ==
  CHOOSE mat \in
    {<<ZeroObj(1 + Len(flat) + Len(E))>>
     \o [i \in 1..Len(coordinates) |->
           <<Zero>> \o [j \in 1..Len(flat) |-> GetItem(flat[j].map, coordinates[i])]
                    \o ZeroObj(Len(E))]
     \o [i \in 1..Len(coordinates) |->
           <<Zero>> \o [j \in 1..Len(flat) |->
                          FNeg(GetItem(flat[j].map, coordinates[i]))]
                    \o ZeroObj(Len(E))]
     \o [i \in 1..Len(flat) |->
           <<Zero>> \o [j \in 1..Len(flat) |-> IntEq(flat[j], flat[i])]
                    \o ZeroObj(Len(E))]
     \o [n \in 1..Len(E) |->
           <<One>> \o ZeroObj(Len(flat))
                   \o [m \in 1..Len(E) |-> FNeg(IntEq(E[m], E[n]))]]
     \o [n \in 1..Len(E) |->
           <<Zero>> \o ZeroObj(Len(flat))
                    \o [m \in 1..Len(E) |-> IntEq(E[m], E[n])]]
     \o <<(<<FNeg(One)>> \o ZeroObj(Len(flat)) \o [m \in 1..Len(E) |-> One])>>
     \o [i \in 1..Len(flat) |->
           <<Zero>> \o [j \in 1..Len(flat) |-> IntEq(flat[j], flat[i])]
                    \o [m \in 1..Len(E) |-> FNeg(IntEq(E[m], E[places[i].n]))]] :
       flat \in {Flat(E, Len(E))}, places \in {Places(E, Len(E))}} : TRUE

\* mat.obj_func = [0] + l * [0] + k * [1]
StripObjective(E) ==
  <<Zero>> \o ZeroObj(Len(Flat(E, Len(E)))) \o [m \in 1..Len(E) |-> One]

\* The points of the box at which the rows hold and the objective is
\* largest.  The rows on the first l variables alone are looked at before
\* the other variables are put to a point.
LPOptima(irows, iobj, l, n) ==
  CHOOSE best \in
    {{x \in feas : \A y \in feas : ObjVal(iobj, y, n) <= ObjVal(iobj, x, n)} :
       feas \in
         {{x \in {head \o tail :
                    head \in {h \in Box([j \in 1..l |-> MaxWeight], l) :
                                \A i \in 1..Len(irows) :
                                  Used(irows[i]) \subseteq 1..l
                                    => Dot(irows[i], h, l) >= 0},
                    tail \in Box([j \in 1..(n - l) |->
                                    VarUpper(irows, l + j)], n - l)} :
             \A i \in 1..Len(irows) :
               Used(irows[i]) \subseteq 1..l \/ RowHolds(irows[i], x)}}} : TRUE

\* range(0, k), filtered: the places in S, in ascending order.
RECURSIVE Ascending(_)
Ascending(S) ==
  IF S = {} THEN <<>>
  ELSE CHOOSE l \in
         UNION {{<<n>> \o Ascending(T) : T \in {S \ {n}}} :
                n \in {CHOOSE m \in S : \A k \in S : m <= k}} : TRUE

\* Mutant: the polytopes whose tau is 0 are the ones kept.
StripKeptZero(E, tau) ==
  CHOOSE kept \in
    {[i \in 1..Len(ns) |-> E[ns[i]]] :
       ns \in {Ascending({n \in 1..Len(E) : tau[n] = 0})}} : TRUE

\* Mutant: every polytope is kept.
StripKeptAll(E, tau) == E

\* [E[n] for n in range(0, k) if tau[n] == 1]
StripKept(E, tau) ==
  CHOOSE kept \in
    {[i \in 1..Len(ns) |-> E[ns[i]]] :
       ns \in {Ascending({n \in 1..Len(E) : tau[n] = 1})}} : TRUE

\* all(all(mu[n][m] == 0 for m in range(0, L[n])) for n if tau[n] == 0)
StripClean(E, sol, tau) ==
  \A n \in 1..Len(E) :
    tau[n] = 0 =>
      \A m \in 1..Len(E[n]) :
        SubSeq(sol, Offset(E, n) + 1, Offset(E, n) + Len(E[n]))[m] = 0

\* The body of the loop after an optimal point sol: what E becomes, and,
\* if the call returns, the set {Polytope(A) for A in E}.
StripBody(E, sol) ==
  CHOOSE o \in
    UNION {{[E |-> kept, ret |-> clean, status |-> "OPTIMAL",
             out |-> IF clean
                     THEN SetObj({{kept[i][m] : m \in 1..Len(kept[i])} :
                                    i \in 1..Len(kept)})
                     ELSE NoneObj] :
              kept \in {StripKept(E, tau)},
              clean \in {StripClean(E, sol, tau)}} :
           tau \in {SubSeq(sol, Len(Flat(E, Len(E))) + 1, Len(sol))}} : TRUE

\* One round on the list E: lp.solve(), and the body for each point that
\* the solver can return; a program that is not optimal returns set().
StripRound(E, coordinates) ==
  CHOOSE outs \in
    {IF best = {}
     THEN {[E |-> E, ret |-> TRUE, status |-> "INCONSISTENT",
            out |-> SetObj({})]}
     ELSE {StripBody(E, sol) : sol \in best} :
       best \in
         {LPOptima(irows, iobj, Len(Flat(E, Len(E))),
                   Len(Flat(E, Len(E))) + Len(E)) :
            irows \in {[i \in 1..Len(mat) |-> IntRow(mat[i])] :
                         mat \in {StripMatrix(E, coordinates)}},
            iobj \in {IntRow(StripObjective(E))}}} : TRUE

\* The rounds that a call can come to from the list E, each with what it
\* can make of E.
RECURSIVE StripRounds(_, _, _)
StripRounds(E, coordinates, fuel) ==
  IF fuel = 0 \/ E = <<>> THEN {}
  ELSE CHOOSE tbl \in
         {{<<E, outs>>}
          \cup UNION {StripRounds(o.E, coordinates, fuel - 1) :
                        o \in {p \in outs : ~p.ret /\ p.E # E}} :
            outs \in {StripRound(E, coordinates)}} : TRUE

StripPrograms(D) ==
  IF IsFailure(StripCoordinates(D)) THEN {}
  ELSE StripRounds(StripLists(D), ListOf(StripCoordinates(D).set),
                   MaxStripRounds)

StripDone(st, out) == [st EXCEPT !.phase = "done", !.out = out]

StripStep(st) ==
  /\ strip' = st
  /\ UNCHANGED <<algVars, hashVars, desirVars, credalVars, funcVars, aplst>>

\* D = set(Polytope(A) for A in data); the test of mapping reads h before
\* it is bound when a mapping is given; coordinates; E.
StripCall ==
  /\ strip.phase = "call"
  /\ \E st \in {IF strip.mapping # NoneObj
                THEN StripDone(strip, Failure("UnboundLocalError"))
                ELSE IF IsFailure(StripCoordinates(strip.D))
                THEN StripDone(strip, StripCoordinates(strip.D))
                ELSE [strip EXCEPT !.phase = "loop",
                                   !.E = StripLists(strip.D),
                                   !.prev = StripLists(strip.D)]} :
       StripStep(st)

\* while (E != []): ...; a call that leaves the loop returns set().
StripIterate ==
  /\ strip.phase = "loop"
  /\ strip.rounds < MaxStripRounds
  /\ IF strip.E = <<>>
     THEN StripStep(StripDone(strip, SetObj({})))
     ELSE \E t \in strip.lps :
            /\ t[1] = strip.E
            /\ \E o \in t[2] :
                 StripStep([strip EXCEPT
                              !.phase = IF o.ret THEN "done" ELSE "loop",
                              !.E = o.E, !.prev = strip.E,
                              !.rounds = strip.rounds + 1,
                              !.status = o.status, !.out = o.out])

InitStrip ==
  /\ \E D \in StripFamilies :
       \E mapping \in {NoneObj, VecP} :
         strip = [phase |-> "call", D |-> D, mapping |-> mapping,
                  lps |-> IF mapping = NoneObj THEN StripPrograms(D) ELSE {},
                  E |-> <<>>, prev |-> <<>>, rounds |-> 0, status |-> "none",
                  out |-> NoneObj]
  /\ aplst = NoLoop
  /\ IdleAlg
  /\ IdleHash
  /\ IdleDesir
  /\ IdleCredal
  /\ IdleFunc

NextStrip ==
  \/ StripCall
  \/ StripIterate

SpecStrip == InitStrip /\ [][NextStrip]_vars

\* The interpreter runs a call that has begun until it returns or raises.
SpecStripFair == SpecStrip /\ WF_vars(NextStrip)

(***************************************************************************)
(* Queries and mutations of the two containers (desirs.py, credalsets.py)   *)
(*                                                                          *)
(* One container, a DesirSet or a CredalSet, is taken through every method  *)
(* it has; dpre and kpre are its members before the last call.              *)
(***************************************************************************)
\* DesirSet.set_pr: set_lower_pr, then set_upper_pr if that returned (it
\* returns None).
SetPr(S, data, val) ==
  CHOOSE o \in {IF first.out.type = "None"
                THEN SetUpperPr(first.set, data, val)
                ELSE first :
                  first \in {SetLowerPr(S, data, val)}} : TRUE

DSetPr ==
  /\ Cardinality(dset) + 1 < MaxCones
  /\ \E p \in PrevisionPool :
       \E o \in {SetPr(dset, p[1], p[2])} : DesirStep("set_pr", p[1], p[2], o)

\* The rows span the coordinates: the cone that cdd is asked about holds no
\* line, and its generators are its extreme rays.
Spanning(V, ps) ==
  /\ ~IsFailure(ps)
  /\ \E pspace \in {ListOf(ps.set)} :
       RowRank(ConeRows(DualMatrix(ListOf(V), pspace), Len(pspace))) = 3

\* D.get_credal()
DGetCredalSpanning ==
  /\ Spanning(dset, Pspace(dset))
  /\ DGetCredal

\* K.pspace()
KPspace ==
  \E out \in {CredalPspace(kset)} :
    CredalStep("pspace", EmptyMap, Outcome(kset, out))

\* K.get_desir()
KGetDesir ==
  /\ Spanning(kset, CredalPspace(kset))
  /\ \E out \in {GetDesir(kset)} :
       CredalStep("get_desir", EmptyMap, Outcome(kset, out))

InitFrame ==
  /\ \/ /\ \E data \in {{}, Labels} : dset = DesirSetInit(data)
        /\ kset = {}
     \/ /\ \E data \in {{}, Labels} : kset = CredalVacuous(data)
        /\ dset = {}
  /\ dres = NoDRes
  /\ dpre = {}
  /\ kres = NoKRes
  /\ kpre = {}
  /\ IdleAlg
  /\ IdleHash
  /\ IdleFunc
  /\ IdleLoop

\* No method of the DesirSet, or of the CredalSet, has been called and it
\* has no members: the container is the other one.
NoDesirSet == dset = {} /\ dpre = {} /\ dres.op = "none"

NoCredalSet == kset = {} /\ kpre = {} /\ kres.op = "none"

NextFrame ==
  \/ NoCredalSet /\ DPspace
  \/ NoCredalSet /\ DAdd
  \/ NoCredalSet /\ DDiscard
  \/ NoCredalSet /\ DSetLowerPr
  \/ NoCredalSet /\ DSetUpperPr
  \/ NoCredalSet /\ DSetPr
  \/ NoCredalSet /\ DAsl
  \/ NoCredalSet /\ DApl
  \/ NoCredalSet /\ DExpectation
  \/ NoCredalSet /\ DGetCredalSpanning
  \/ NoDesirSet /\ KPspace
  \/ NoDesirSet /\ KAdd
  \/ NoDesirSet /\ KDiscard
  \/ NoDesirSet /\ KDiscardRedundant
  \/ NoDesirSet /\ KCondition
  \/ NoDesirSet /\ KLower
  \/ NoDesirSet /\ KUpper
  \/ NoDesirSet /\ KGetDesir

SpecFrame == InitFrame /\ [][NextFrame]_vars

(***************************************************************************)
(* Properties.  C1-C4 and C6 are checked under SpecAlg, C7 under SpecHash,  *)
(* C5 and C8-C10 under SpecDesir.                                           *)
(***************************************************************************)
\* The value of a mapping at x, zero outside its domain.
ValAt(m, x) == IF x \in DOMAIN m THEN m[x] ELSE Zero

\* r is the rational n/d (d # 0) in lowest terms with a positive denominator.
IsRat(r, n, d) ==
  /\ r[2] > 0
  /\ GCD(Abs(r[1]), r[2]) = 1
  /\ r[1] * d = n * r[2]

IsZeroMap(m) == \A x \in DOMAIN m : m[x][1] = 0
IsConstantMap(m) == \A x, y \in DOMAIN m : m[x] = m[y]

\* C1: for gambles f and g, each of f+g, f-g and f*g is a Gamble whose
\* domain is the union of the two domains and whose value at every x of
\* that union is f[x] op g[x], a value outside a domain counting as 0.
C1_PointwiseOnUnion ==
  res.op \in {"add", "sub", "mul"} =>
    /\ res.out.type = "Gamble"
    /\ DOMAIN res.out.map = DOMAIN f \cup DOMAIN g
    /\ \A x \in DOMAIN f \cup DOMAIN g :
         LET a == ValAt(f, x)[1]
             b == ValAt(g, x)[1]
             v == res.out.map[x]
         IN  /\ res.op = "add" => IsRat(v, a + b, 1)
             /\ res.op = "sub" => IsRat(v, a - b, 1)
             /\ res.op = "mul" => IsRat(v, a * b, 1)

C1_Witness ==
  /\ res.op = "sub"
  /\ DOMAIN f = {"a", "b"}
  /\ DOMAIN g = {"b", "c"}
  /\ f["b"] = IntVal(2)
  /\ g["b"] = IntVal(-1)
  /\ g["c"] = IntVal(1)
  /\ res.out.map["b"] = IntVal(3)
  /\ res.out.map["c"] = IntVal(-1)

\* C2: for every gamble f that is not identically zero, Ray(f) has max-norm
\* exactly 1 and its domain is its support (no zero value is stored).
C2_RayNormOne ==
  (res.op = "ray" /\ ~IsZeroMap(f)) =>
    /\ res.out.type = "Ray"
    /\ \E x \in DOMAIN res.out.map : Abs(res.out.map[x][1]) = res.out.map[x][2]
    /\ \A x \in DOMAIN res.out.map :
         /\ Abs(res.out.map[x][1]) <= res.out.map[x][2]
         /\ res.out.map[x][1] # 0

C2_Witness ==
  /\ res.op = "ray"
  /\ f = [a |-> IntVal(2), b |-> IntVal(-1), c |-> IntVal(0)]
  /\ res.out.type = "Ray"
  /\ res.out.map = [a |-> <<1, 1>>, b |-> <<-1, 2>>]

\* C3: Ray(k*f) = Ray(f) for every gamble f that is not identically zero
\* and every positive rational k, and Ray(Ray(f)) = Ray(f).
C3_RayOfDirection ==
  (res.op \in {"rayscaled", "rayray"} /\ ~IsZeroMap(f)) =>
    /\ res.out.type = "Ray"
    /\ res.out = RayInit(f)

C3_Witness ==
  /\ res.op = "rayscaled"
  /\ res.k = <<1, 2>>
  /\ f = [a |-> IntVal(2), b |-> IntVal(-1)]
  /\ res.out.map = [a |-> <<1, 1>>, b |-> <<-1, 2>>]

\* C4: for rays r = Ray(f), s = Ray(g) and a nonzero scalar k, each of r+s,
\* r*s, k*r and r/k is a plain Gamble whose value at every x is r[x]+s[x],
\* r[x]*s[x], k*r[x] and r[x]/k.
C4_RayArithmeticDemotes ==
  res.op \in {"radd", "rmul", "rscale", "rdiv"} =>
    /\ res.out.type = "Gamble"
    /\ \A x \in Labels :
         LET r == ValAt(RayInit(f).map, x)
             s == ValAt(RayInit(g).map, x)
             v == ValAt(res.out.map, x)
         IN  /\ res.op = "radd" =>
                  IsRat(v, r[1] * s[2] + s[1] * r[2], r[2] * s[2])
             /\ res.op = "rmul" => IsRat(v, r[1] * s[1], r[2] * s[2])
             /\ res.op = "rscale" =>
                  IsRat(v, res.k[1] * r[1], res.k[2] * r[2])
             /\ res.op = "rdiv" =>
                  IsRat(v, r[1] * res.k[2], r[2] * res.k[1])

\* The part of C4 the code keeps: r*s, k*r and r/k are plain Gambles with
\* the pointwise values.
RayProductsDemote ==
  res.op \in {"rmul", "rscale", "rdiv"} => C4_RayArithmeticDemotes

\* Every value of the gamble-like m is the same rational.
IsConstantGamble(m) ==
  \A x, y \in DOMAIN m : MakeRational(m[x]) = MakeRational(m[y])

C6_ZeroGambleRejected ==
  (res.op = "ray" /\ IsZeroMap(f)) => res.out = Failure("ValueError")

C6_Witness ==
  /\ res.op = "ray"
  /\ f = [a |-> IntVal(0), b |-> IntVal(0)]
  /\ res.out.type = "ValueError"

\* C7: two vectors that are equal (same domain, same values) have the same
\* hash whatever the order their entries were given in, so a set holds
\* equal vectors only once.
C7_HashedByContent ==
  /\ \A e \in entries :
       MappingEq(e, hres) => VectorHash(e) = VectorHash(hres)
  /\ \A e1, e2 \in entries : MappingEq(e1, e2) => e1 = e2

\* The generator rays of all the cones of S.
AllGenerators(S) == UNION {Generators(cone) : cone \in S}

\* The states of the cones of S.
States(S) == UNION {ConeDomain(cone) : cone \in S}

\* The product of the denominators of the values of the gambles of G.
RECURSIVE DenOf(_)
DenOf(V) ==
  IF V = {} THEN 1
  ELSE CHOOSE d \in
         UNION {{v[2] * DenOf(W) : W \in {V \ {v}}} :
                v \in {CHOOSE u \in V : TRUE}} : TRUE

Scale(G) ==
  CHOOSE d \in
    {DenOf(V) : V \in {UNION {{G[k][x] : x \in DOMAIN G[k]} : k \in 1..Len(G)}}} :
    TRUE

\* The value at x of the combination of the gambles G[1..k] with the
\* weights w, times the whole number L that every denominator divides.
RECURSIVE CombAt(_, _, _, _, _)
CombAt(G, w, x, k, L) ==
  IF k = 0 THEN 0
  ELSE LET v == ValAt(G[k], x)
       IN  w[k] * v[1] * (L \div v[2]) + CombAt(G, w, x, k - 1, L)

\* Some nonnegative weights on the generator rays of S give a sum that is
\* <= -1 at every state.
SureLoss(S) ==
  \E G \in {ListOf(AllGenerators(S))}, X \in {States(S)} :
    \E L \in {Scale(G)} :
      \E w \in [1..Len(G) -> 0..MaxWeight] :
        \A x \in X : CombAt(G, w, x, Len(G), L) <= -L

\* C8: asl() on a set of desirable gambles (with at least one cone, C9 being
\* about the set without any) returns False exactly when some nonnegative
\* weights on its generator rays give a sum <= -1 at every state of the
\* possibility space, and True otherwise; with the gambles G1 and G2 it is
\* True and with G3 as well it is False.
C8_AslIffNoSureLoss ==
  (dres.op = "asl" /\ dset # {}) =>
    /\ dres.out = BoolObj(~SureLoss(dset))
    /\ dset = {Cone(<<G1>>), Cone(<<G2>>)} => dres.out = BoolObj(TRUE)
    /\ dset = {Cone(<<G1>>), Cone(<<G2>>), Cone(<<G3>>)} =>
         dres.out = BoolObj(FALSE)

\* asl() has returned False for the set of G1, G2 and G3.
C8_Witness ==
  /\ dres.op = "asl"
  /\ dset = {Cone(<<G1>>), Cone(<<G2>>), Cone(<<G3>>)}
  /\ dres.out = BoolObj(FALSE)

\* C9: asl() on a set of desirable gambles without any cone returns True and
\* raises no error.
C9_AslOfEmptySet ==
  (dres.op = "asl" /\ dset = {}) => dres.out = BoolObj(TRUE)

\* A combination of the two-tier gambles of S incurs partial loss: it is
\* <= 0 at every state and < 0 at some state, the second tiers deciding at
\* the states where the first tiers sum to 0.
PartialLoss(S) ==
  \E D \in {ListOf(S)}, X \in {States(S)} :
    \E first \in {[k \in 1..Len(D) |-> D[k].map]},
       second \in {[k \in 1..Len(D) |-> D[k].dir]} :
      \E L \in {Scale(first \o second)} :
        \E w \in [1..Len(D) -> 0..MaxWeight] :
          /\ \A x \in X : CombAt(first, w, x, Len(D), L) <= 0
          /\ \E x \in X : CombAt(first, w, x, Len(D), L) < 0
          /\ \A x \in X :
               CombAt(first, w, x, Len(D), L) = 0 =>
                 CombAt(second, w, x, Len(D), L) <= 0

\* The vacuous set over {a, b, c}.
Vacuous == DesirSetInit(Labels)

\* The cone that set_upper_pr(indicator of {a, b} on {a, b, c}, 0) adds.
UpperAB ==
  [type |-> "DiRay", map |-> [a |-> <<-1, 1>>, b |-> <<-1, 1>>],
   dir |-> Indicator(Labels)]

\* C10: apl() on a set of desirable gambles (with at least one cone) returns
\* False exactly when some nonnegative combination of its gambles is <= 0 at
\* every state and < 0 at some state, and True otherwise, also when the set
\* is not closed: the vacuous set with G1 avoids partial loss, with G1 and
\* G3 it does not, and the vacuous set after set_upper_pr(IndAB, 0) does.
C10_AplIffNoPartialLoss ==
  (dres.op = "apl" /\ dset # {}) =>
    /\ dres.out = BoolObj(~PartialLoss(dset))
    /\ dset = Vacuous \cup {Cone(<<G1>>)} => dres.out = BoolObj(TRUE)
    /\ dset = Vacuous \cup {Cone(<<G1>>), Cone(<<G3>>)} =>
         dres.out = BoolObj(FALSE)
    /\ dset = Vacuous \cup {UpperAB} => dres.out = BoolObj(TRUE)

\* apl() has returned True for the vacuous set with the cone of
\* set_upper_pr(IndAB, 0), which is not closed.
C10_Witness ==
  /\ dres.op = "apl"
  /\ dset = Vacuous \cup {UpperAB}
  /\ dres.out = BoolObj(TRUE)

\* C11: for every set of desirable gambles with at least one cone, whenever
\* apl() returns True, asl() on the same set returns True as well.
C11_AplImpliesAsl ==
  (dres.op = "apl" /\ dset # {} /\ dres.out = BoolObj(TRUE)) =>
    Asl(dset) = BoolObj(TRUE)

\* apl() has returned True for the vacuous set with the cone of G1 added,
\* which asl() accepts too.
C11_Witness ==
  /\ dres.op = "apl"
  /\ dset = Vacuous \cup {Cone(<<G1>>)}
  /\ dres.out = BoolObj(TRUE)
  /\ Asl(dset) = BoolObj(TRUE)

\* The gamble m - v on the domain of m.
ShiftedBy(m, v) ==
  [x \in DOMAIN m |-> FAdd(MakeRational(m[x]), FNeg(MakeRational(v)))]

\* C12: set_lower_pr(g, v), with dom the domain of g, adds exactly one cone
\* to the set, whose generators are the Ray of g - v on dom and the Ray of
\* the indicator of dom (two equal rays being one generator, and a cone that
\* is there already not being there twice), and leaves every other cone
\* untouched; the rays are those of gambles that are not identically zero.
\* On an empty set, the indicator of {a, b} on {a, b, c} and v = 2/5 give the
\* single cone of Ray{a:1, b:1, c:-2/3} and Ray{a:1, b:1, c:1}.
C12_LowerPrevisionAddsCone ==
  dres.op = "set_lower_pr" =>
    /\ \A r1 \in {RayInit(ShiftedBy(dres.arg, dres.val))},
          r2 \in {RayInit(Indicator(DOMAIN dres.arg))} :
         (r1.type = "Ray" /\ r2.type = "Ray") =>
           /\ dres.out = NoneObj
           /\ \E cone \in dset :
                /\ Generators(cone) = {r1.map, r2.map}
                /\ dset = dpre \cup {cone}
    /\ (dpre = {} /\ dres.arg = IndAB /\ dres.val = <<2, 5>>) =>
         \E cone \in dset :
           /\ dset = {cone}
           /\ Generators(cone) =
                {[a |-> One, b |-> One, c |-> <<-2, 3>>], Indicator(Labels)}

\* set_lower_pr(indicator of {a, b} on {a, b, c}, 2/5) has added its cone to
\* the vacuous set, whose three cones are still there.
C12_Witness ==
  /\ dres.op = "set_lower_pr"
  /\ dres.arg = IndAB
  /\ dres.val = <<2, 5>>
  /\ dpre = Vacuous
  /\ Cardinality(dset) = 4
  /\ Vacuous \subseteq dset
  /\ \E cone \in dset :
       Generators(cone) =
         {[a |-> One, b |-> One, c |-> <<-2, 3>>], Indicator(Labels)}

\* C13 as stated: across add and discard calls the possibility space never
\* shrinks: every state of pspace() before the call is one after it.
C13_PspaceNeverShrinks ==
  dres.op \in {"add", "discard"} => States(dpre) \subseteq States(dset)

\* C13 amended: add never shrinks the possibility space; discard never
\* grows it and takes from it exactly the states of the discarded cone that
\* no cone left in the set has.
C13_OnlyDiscardShrinks ==
  /\ dres.op = "add" => States(dpre) \subseteq States(dset)
  /\ dres.op = "discard" =>
       /\ States(dset) \subseteq States(dpre)
       /\ \A cone \in dpre \ dset :
            States(dpre) \ States(dset) = ConeDomain(cone) \ States(dset)
       /\ dpre = dset => States(dpre) = States(dset)

\* The cone of the indicator of c was discarded from the vacuous set on
\* {a, b, c}, and c is no state of the set any more.
C13_Witness ==
  /\ dres.op = "discard"
  /\ dpre = Vacuous
  /\ States(dpre) = Labels
  /\ States(dset) = {"a", "b"}

\* The states that some generator of some cone of S is defined at.
StatesOfGenerators(S) ==
  {x \in Labels : \E cone \in S : \E ray \in Generators(cone) : x \in DOMAIN ray}

\* C14: in every state that add, discard, set_lower_pr and set_upper_pr
\* calls lead to and that has a cone, pspace() is the union of the domains
\* of the cones that are in the set then.
C14_PspaceIsUnionOfDomains ==
  (dres.op = "pspace" /\ dset # {}) =>
    dres.out = SetObj(StatesOfGenerators(dset))

\* pspace() was asked of the set of the one cone that
\* set_upper_pr(IndAB, 0) gives, and is {a, b, c}.
C14_Witness ==
  /\ dres.op = "pspace"
  /\ dset = {UpperAB}
  /\ dres.out = SetObj(Labels)

\* C15: discard removes the matching cone when it is there and is a no-op
\* otherwise: after discard(c), c is no member, every other cone is a
\* member exactly if it was, and no error is raised when c was absent.
C15_DiscardFrame ==
  dres.op = "discard" =>
    \A cone \in {Cone(<<dres.arg>>)} :
      cone.type = "DiRay" =>
        /\ dres.out = NoneObj
        /\ cone \notin dset
        /\ \A other \in (dset \cup dpre) \ {cone} :
             other \in dset <=> other \in dpre

\* The cone of G1 was discarded from a set that did not have it: nothing
\* was raised and the set is as it was.
C15_Witness ==
  /\ dres.op = "discard"
  /\ dres.arg = G1
  /\ Cone(<<G1>>) \notin dpre
  /\ dpre # {}
  /\ dset = dpre
  /\ dres.out = NoneObj

\* The statuses infeasible, unbounded and undecided with the words that name
\* them.
NamedStatuses ==
  {<<"INCONSISTENT", "inconsistent">>, <<"UNBOUNDED", "unbounded">>,
   <<"UNDECIDED", "undecided">>}

\* C16: the lower and the upper expectation of a gamble on a set of
\* desirable gambles (with at least one cone) fail with an error that names
\* the status whenever the linear program ends infeasible, unbounded or
\* undecided, never return a value unless the status is optimal, and return
\* the optimum (the upper expectation: its negative, the program being that
\* of the negated gamble) when it is.
C16_ExpectationNeedsOptimum ==
  (dres.op \in {"lower_ex", "upper_ex"} /\ dset # {}
     /\ dres.arg.type = "Gamble") =>
    /\ \A named \in NamedStatuses :
         dres.val.status = named[1] =>
           /\ dres.out.type = "ValueError"
           /\ dres.out.msg = named[2]
    /\ dres.val.status # "OPTIMAL" => IsFailure(dres.out)
    /\ dres.val.status = "OPTIMAL" =>
         /\ dres.op = "lower_ex" => dres.out = Scalar(dres.val.obj)
         /\ dres.op = "upper_ex" => dres.out = Scalar(FNeg(dres.val.obj))

\* The upper expectation was asked of a set with a cone and the program
\* ended unbounded: a ValueError that says so.
C16_Witness ==
  /\ dres.op = "upper_ex"
  /\ dset # {}
  /\ dres.arg.type = "Gamble"
  /\ dres.val.status = "UNBOUNDED"
  /\ dres.out = ErrorWith("ValueError", "unbounded")

\* The expectation of the gamble h under the mass function p given the
\* states they share: the sum of p[x]*h[x] over those states divided by
\* the mass p gives them, and 0 when they share none.
CondExpectation(p, h) ==
  CHOOSE v \in
    {IF D = {} THEN Zero
     ELSE FDiv(SumOf([x \in D |-> FMul(p.map[x], h.map[x])], D),
               SumOf([x \in D |-> p.map[x]], D)) :
       D \in {Domain(p) \cap Domain(h)}} : TRUE

\* The sum over the states x of p of p[x]*h[x], with h extended by zero.
PlainExpectation(p, h) ==
  SumOf([x \in Domain(p) |-> FMul(p.map[x], GetItem(h.map, x))], Domain(p))

\* C17 as stated: the lower (upper) expectation of a gamble h under a
\* nonempty credal set is the least (greatest), over its members p, of the
\* sum over the states x of p[x]*h[x] with h extended by zero.
C17_ExpectationIsPlainSum ==
  (/\ kres.op \in {"lower", "upper"}
   /\ kset # {}
   /\ IsInstance(kres.arg, "Gamble"))
    => \E sums \in {{PlainExpectation(p, kres.arg) : p \in kset}} :
         kres.out = Scalar(IF kres.op = "lower" THEN FMin(sums) ELSE FMax(sums))

\* C17 amended: the lower (upper) expectation of a gamble h under a nonempty
\* credal set is the least (greatest), over its members p, of the
\* expectation of h under p conditional on the domain of h; the two members
\* of the example give -1/25 and 1/25.
C17_ExpectationIsConditionalSum ==
  (/\ kres.op \in {"lower", "upper"}
   /\ kset # {}
   /\ IsInstance(kres.arg, "Gamble"))
    => \E sums \in {{CondExpectation(p, kres.arg) : p \in kset}} :
         kres.out = Scalar(IF kres.op = "lower" THEN FMin(sums) ELSE FMax(sums))

\* The lower expectation -1/25 of the example has been computed.
C17_Witness ==
  /\ kres.op = "lower"
  /\ kset = {PMFuncInit(PmfP), PMFuncInit(PmfQ)}
  /\ kres.arg = GambleInit(GambleABC)
  /\ kres.out = Scalar(<<-1, 25>>)

\* The mass that the mass function p gives to the event E.
MassOn(p, E) == SumOf([x \in E |-> GetItem(p.map, x)], E)

\* p restricted to the event E and divided by the mass it gives to E.
Renormalized(p, E) ==
  CHOOSE q \in
    {[type |-> "PMFunc",
      map |-> [x \in {y \in E \cap Domain(p) : p.map[y] # Zero} |->
                 FDiv(p.map[x], mass)],
      val |-> Zero] : mass \in {MassOn(p, E)}} : TRUE

\* First half of C18: when every member gives the event positive mass,
\* conditioning returns the members restricted to it and renormalized.
ConditionRenormalizes ==
  (/\ kres.op = "condition"
   /\ \A p \in kset : FLt(Zero, MassOn(p, kres.arg)))
    => kres.out = CredalObj({Renormalized(p, kres.arg) : p \in kset})

\* C18 as stated: conditioning on an event returns the members restricted
\* to it and renormalized when each gives it positive mass, and the vacuous
\* credal set on the event, with no error, when some member gives it none.
C18_ZeroMassGivesVacuous ==
  /\ ConditionRenormalizes
  /\ (/\ kres.op = "condition"
      /\ \E p \in kset : MassOn(p, kres.arg) = Zero)
       => kres.out = CredalObj(CredalVacuous(kres.arg))

\* C19 as stated: PMFunc of a mapping with a negative value raises the
\* error of negative mass (ValueError) and makes no mass function.
C19_NegativeValueRejected ==
  (/\ kres.op = "pmf"
   /\ \E x \in DOMAIN kres.arg : FLt(kres.arg[x], Zero))
    => kres.out.type = "ValueError"

\* C20 as stated: the lower and the upper expectation of a gamble under a
\* credal set without members raise the error that the raise statement
\* names, and return no value.
C20_EmptySetRaisesNamedError ==
  (/\ kres.op \in {"lower", "upper"}
   /\ kset = {}
   /\ IsInstance(kres.arg, "Gamble"))
    => kres.out.type = "Error"

\* C23: self | event, for a Vector or a Gamble, returns an object of the
\* same class whose domain is exactly event, with the value of self at the
\* labels of event that self is defined at and 0 at the others; a label
\* outside event is dropped; an argument that is no set raises TypeError.
C23_RestrictZeroFills ==
  fres.op = "or" =>
    IF fres.arg.type = "frozenset"
    THEN /\ fres.out.type = fobj.type
         /\ DOMAIN fres.out.map = fres.arg.set
         /\ \A x \in fres.arg.set :
              fres.out.map[x] = IF x \in DOMAIN fobj.map THEN fobj.map[x] ELSE Zero
    ELSE fres.out.type = "TypeError"

\* A gamble on {a, b} was restricted to {a, c}: a is kept, c is 0, b is gone.
C23_Witness ==
  /\ fres.op = "or"
  /\ fobj.type = "Gamble"
  /\ DOMAIN fobj.map = {"a", "b"}
  /\ fobj.map["a"] # Zero
  /\ fres.arg = SetObj({"a", "c"})
  /\ fres.out.map = [a |-> fobj.map["a"], c |-> Zero]

\* (f - min f)/(max f - min f), value by value.
ScaledShiftedValues(m, lo, hi) ==
  [x \in DOMAIN m |-> FDiv(FAdd(m[x], FNeg(lo)), FAdd(hi, FNeg(lo)))]

\* What C24 says of a gamble that is not constant: scaled_shifted() is the
\* gamble (f - min f)/(max f - min f), with minimum 0 and maximum 1.
NonconstantScaledShifted ==
  (fres.op = "scaled_shifted" /\ Cardinality(Range(fobj)) > 1) =>
    \E b \in {Bounds(fobj)} :
      /\ fres.out = GambleInit(ScaledShiftedValues(fobj.map, b[1], b[2]))
      /\ Bounds(fres.out) = <<Zero, One>>

\* C24 as stated: scaled_shifted() of a gamble that is not constant is
\* (f - min f)/(max f - min f), and of a constant gamble, the empty one
\* too, it is None, no gamble and no error.
C24_ConstantGivesNone ==
  /\ NonconstantScaledShifted
  /\ (fres.op = "scaled_shifted" /\ Cardinality(Range(fobj)) <= 1) =>
       fres.out = NoneObj

\* C24 amended: scaled_shifted() of a gamble that is not constant is
\* (f - min f)/(max f - min f), and of a constant gamble, the empty one
\* too, it is the zero gamble on the same domain; no error is raised.
C24_ConstantGivesZero ==
  /\ NonconstantScaledShifted
  /\ (fres.op = "scaled_shifted" /\ Cardinality(Range(fobj)) <= 1) =>
       fres.out = GambleInit([x \in DOMAIN fobj.map |-> Zero])

\* scaled_shifted() has been taken of {a: -1, b: 1}, giving {a: 0, b: 1}.
C24_Witness ==
  /\ fres.op = "scaled_shifted"
  /\ fobj.map = [a |-> IntVal(-1), b |-> IntVal(1)]
  /\ fres.out = GambleInit([a |-> Zero, b |-> One])

\* C30: a Function is frozen unless it was created with frozen=False; a
\* frozen one answers every item assignment and deletion with TypeError and
\* stays as it is; one that is not frozen takes them; thaw() and freeze()
\* switch between the two and touch nothing else; and two Functions are
\* equal exactly when their contents are, whatever their flags.
C30_FrozenMeansImmutable ==
  /\ fres.op = "init" => (fobj.frozen <=> fres.arg.arg # "False")
  /\ (fres.op \in {"setitem", "delitem"} /\ fres.pre.frozen) =>
       fres.out.type = "TypeError" /\ fobj = fres.pre
  /\ (fres.op = "setitem" /\ ~fres.pre.frozen) =>
       /\ fres.out = NoneObj
       /\ DOMAIN fobj.map = DOMAIN fres.pre.map \cup {fres.arg.arg}
       /\ \A x \in DOMAIN fobj.map :
            fobj.map[x] = IF x = fres.arg.arg
                          THEN Frac(fres.arg.value[1], fres.arg.value[2])
                          ELSE fres.pre.map[x]
  /\ (fres.op = "delitem" /\ ~fres.pre.frozen
        /\ fres.arg.arg \in DOMAIN fres.pre.map) =>
       /\ fres.out = NoneObj
       /\ DOMAIN fobj.map = DOMAIN fres.pre.map \ {fres.arg.arg}
       /\ \A x \in DOMAIN fobj.map : fobj.map[x] = fres.pre.map[x]
  /\ fres.op = "thaw" => ~fobj.frozen /\ fobj.map = fres.pre.map
  /\ fres.op = "freeze" => fobj.frozen /\ fobj.map = fres.pre.map
  /\ fres.op = "eq" =>
       (fres.out = BoolObj(TRUE) <=>
          /\ DOMAIN fobj.map = DOMAIN fres.arg.map
          /\ \A x \in DOMAIN fobj.map : fobj.map[x] = fres.arg.map[x])

\* A Gamble, which is created frozen, has been thawed and has taken the
\* assignment of 2/4 to a, and is equal to a frozen Function of its content.
C30_Witness ==
  /\ fobj.type = "Gamble"
  /\ fres.op = "setitem"
  /\ ~fres.pre.frozen
  /\ fres.arg = [arg |-> "a", value |-> <<2, 4>>]
  /\ fobj.map["a"] = <<1, 2>>
  /\ FunctionEq(fobj, FunctionNew("Function", fobj.map, TRUE)) = BoolObj(TRUE)

\* p is a probability mass function: no value is negative or zero (its
\* domain is its support) and the values add up to 1.
IsPMF(p) ==
  /\ p.type = "PMFunc"
  /\ \A x \in DOMAIN p.map : FLt(Zero, p.map[x])
  /\ SumOf(p.map, DOMAIN p.map) = One

\* C28: whatever add and discard calls a credal set has had, every member
\* is a probability mass function, and an add or discard that raised has
\* left the members as they were.
C28_MembersStayPMFs ==
  /\ \A p \in kset : IsPMF(p)
  /\ (kres.op \in {"add", "discard"} /\ kres.out # NoneObj) =>
       IsFailure(kres.out) /\ kset = kpre

\* The add of {a: -1, b: 2} to a credal set with members was rejected.
C28_Witness ==
  /\ kres.op = "add"
  /\ kres.arg = [a |-> IntVal(-1), b |-> IntVal(2)]
  /\ kres.out.type = "ValueError"
  /\ kset # {}
  /\ kset = kpre

\* Every round of apl() that goes on to another has left a set A that is
\* not empty, lacks a state of the set before it and holds exactly the
\* states whose tau was 1; never more linear programs have been solved than
\* the possibility space has states; and a call that solved one returned
\* True or False.
AplRoundsShrink ==
  /\ (aplst.phase = "loop" /\ aplst.rounds > 0) =>
       /\ aplst.A # {}
       /\ aplst.A \subseteq aplst.prev
       /\ aplst.A # aplst.prev
       /\ aplst.A = {x \in aplst.prev : <<x, 1>> \in aplst.tau}
  /\ aplst.phase \in {"loop", "done"} =>
       aplst.rounds <= Cardinality(aplst.space)
  /\ (aplst.phase = "done" /\ aplst.rounds > 0) =>
       aplst.out \in {BoolObj(TRUE), BoolObj(FALSE)}

\* C25: the iteration of apl() terminates: each round that does not return
\* replaces A by a nonempty proper subset of it, the states whose tau is 1
\* in the optimum of that round, so that at most as many linear programs
\* are solved as the possibility space has states, and the call returns.
C25_AplTerminates ==
  []AplRoundsShrink /\ <>(aplst.phase = "done")

\* apl() has solved three linear programs, for {a, b, c}, {a, b} and {a},
\* on the cones of the upper previsions 0 of {a, b} and of {a}, and
\* returned False.
C25_Witness ==
  /\ aplst.phase = "done"
  /\ UpperAB \in aplst.S
  /\ Cardinality(aplst.S) = 2
  /\ aplst.rounds = 3
  /\ aplst.prev = {"a", "b"}
  /\ aplst.A = {"a"}
  /\ aplst.out = BoolObj(FALSE)

\* A round that did not return left fewer polytopes in E than it found; no
\* more programs are solved than D has polytopes; a program that is not
\* optimal, and a loop left with E empty, return the empty set.
StripRoundsShrink ==
  /\ strip.phase = "loop" /\ strip.rounds > 0
       => Len(strip.E) < Len(strip.prev)
  /\ strip.rounds <= Cardinality(strip.D)
  /\ strip.phase = "done" /\ strip.rounds > 0 /\ strip.status # "OPTIMAL"
       => strip.out = SetObj({})
  /\ strip.phase = "done" /\ strip.mapping = NoneObj /\ strip.E = <<>>
       /\ ~IsFailure(StripCoordinates(strip.D))
       => strip.out = SetObj({})

\* C26: feasible() terminates: every round that does not return removes at
\* least one polytope from the working family E, so that at most as many
\* linear programs are solved as the input has polytopes, and the empty set
\* is returned as soon as a round's program is not optimal or E is empty.
C26_StripTerminates == []StripRoundsShrink /\ <>(strip.phase = "done")

\* A call that solved two programs, the second on the one polytope that the
\* first had left, and returned the empty set because it was not optimal.
C26_Witness ==
  /\ strip.phase = "done"
  /\ strip.rounds = 2
  /\ Cardinality(strip.D) = 2
  /\ Len(strip.prev) = 1
  /\ strip.status = "INCONSISTENT"
  /\ strip.out = SetObj({})

\* The generators "for A in E for v in A" of the polytopes of E.
StripGenerators(E) ==
  UNION {{<<n, E[n][i]>> : i \in 1..Len(E[n])} : n \in 1..Len(E)}

\* The sum of w[p] times the value at x of the generator p, over the
\* generators ps.
RECURSIVE WeightedSum(_, _, _)
WeightedSum(w, ps, x) ==
  IF ps = {} THEN Zero
  ELSE CHOOSE total \in
         UNION {{FAdd(FMul(<<w[p], 1>>, GetItem(p[2].map, x)),
                      WeightedSum(w, ps \ {p}, x))} :
                p \in {CHOOSE q \in ps : TRUE}} : TRUE

\* There are weights, at least 1 on the generators of the polytopes of E
\* that are in kept and 0 on the generators of the others, with which the
\* generators add up to 0 at every coordinate.
StripBalanced(E, kept) ==
  \E w \in [StripGenerators(E) -> 0..MaxWeight] :
    /\ \A p \in StripGenerators(E) :
         IF {E[p[1]][i] : i \in 1..Len(E[p[1]])} \in kept
         THEN w[p] >= 1 ELSE w[p] = 0
    /\ \A x \in UNION {Domain(p[2]) : p \in StripGenerators(E)} :
         WeightedSum(w, StripGenerators(E), x) = Zero

\* C27: whenever feasible() returns a nonempty set, it is a subset of the
\* input polytopes, and there are weights that are at least 1 on every
\* generator of every polytope returned and 0 on every generator of the
\* polytopes stripped in the final round, with which the generators add up
\* to 0 at every coordinate.
C27_StripResultBalanced ==
  strip.phase = "done" /\ strip.out.type = "frozenset" /\ strip.out.set # {}
    => /\ strip.out.set \subseteq strip.D
       /\ StripBalanced(strip.prev, strip.out.set)

\* A call that returned one polytope of three, after a final round that
\* stripped another.
C27_Witness ==
  /\ strip.phase = "done"
  /\ strip.rounds = 2
  /\ Cardinality(strip.D) = 3
  /\ Len(strip.prev) = 2
  /\ strip.out = SetObj({{VecP, VecN}})

\* The mass function p is a mixture of other mass functions, those of S: it
\* is between two of them, or in a triangle of three.
IsMixture(p, S) ==
  \E r \in {[q \in S \cup {p} |-> <<One, GetItem(q.map, "a"), GetItem(q.map, "b")>>]} :
    \E q1, q2 \in S :
      \/ OnSegment(r[p], r[q1], r[q2])
      \/ \E q3 \in S : InTriangle(r[p], r[q1], r[q2], r[q3])

\* C21: after discard_redundant() the members are exactly the members of
\* before that are extreme points of the convex hull of the members: no
\* extreme point is removed and no other member remains.
C21_OnlyExtremePointsRemain ==
  kres.op = "discard_redundant" /\ kpre # {}
    => /\ kres.out = NoneObj
       /\ kset = {p \in kpre : ~IsMixture(p, kpre \ {p})}

\* The call removed two members: one between two others, one a mixture of
\* three others, which stay.
C21_Witness ==
  /\ kres.op = "discard_redundant"
  /\ Cardinality(kpre) = 5
  /\ Cardinality(kset) = 3
  /\ PMFuncInit(PmfP) \in kpre \ kset

\* The round trip is over: get_credal raised, or get_desir was called on
\* the credal set that it returned.
RoundTripDone ==
  /\ dres.op = "get_credal"
  /\ \/ IsFailure(dres.out)
     \/ kres.op = "get_desir" /\ kset = dres.out.set

\* What the round trip gave: a set of desirable gambles or an exception.
RoundTrip == IF IsFailure(dres.out) THEN dres.out ELSE kres.out

\* Two outcomes of an expectation agree: the same number, or no number
\* either time.
Agree(x, y) ==
  IF IsFailure(x) \/ IsFailure(y) THEN IsFailure(x) /\ IsFailure(y) ELSE x = y

SameExpectations ==
  \A other \in DualGambles :
    /\ Agree(DesirTimes(dset, other),
             IF IsFailure(RoundTrip) THEN RoundTrip
             ELSE DesirTimes(RoundTrip.set, other))
    /\ Agree(DesirPow(dset, other),
             IF IsFailure(RoundTrip) THEN RoundTrip
             ELSE DesirPow(RoundTrip.set, other))

\* C22: for a set D of cones of one generator each, the set
\* D.get_credal().get_desir() gives the same lower and the same upper
\* expectation as D for every gamble on the possibility space.
C22_RoundTripSameExpectations ==
  RoundTripDone /\ (\A cone \in dset : cone.dir = Origin) => SameExpectations

\* The same for the sets that hold the cone of the indicator of every state
\* of their possibility space.
RoundTripOfVacuousBased ==
  RoundTripDone /\ DesirSetInit(Pspace(dset).set) \subseteq dset
    => SameExpectations

\* The methods that ask and the methods that change, by the name of the call.
DesirQueries == {"asl", "apl", "lower_ex", "upper_ex", "pspace", "get_credal"}

DesirMutators == {"add", "discard", "set_lower_pr", "set_upper_pr", "set_pr"}

CredalQueries == {"lower", "upper", "pspace", "condition", "get_desir"}

CredalMutators == {"add", "discard", "discard_redundant"}

\* C29: asl, apl, the lower and the upper expectation, pspace and get_credal
\* leave the members of a DesirSet as they were, and so do the lower and the
\* upper expectation, pspace, conditioning and get_desir the members of a
\* CredalSet; conditioning returns a CredalSet of its own.  Only add,
\* discard, set_lower_pr, set_upper_pr, set_pr and discard_redundant change
\* the members.
C29_QueriesLeaveMembers ==
  /\ dres.op \in DesirQueries => dset = dpre
  /\ kres.op \in CredalQueries => kset = kpre
  /\ kres.op = "condition" /\ ~IsFailure(kres.out) => kres.out.type = "CredalSet"
  /\ dres.op # "none" /\ dset # dpre => dres.op \in DesirMutators
  /\ kres.op # "none" /\ kset # kpre => kres.op \in CredalMutators

\* A credal set of two members or more was conditioned: the call returned
\* another credal set and the members are those of before.
C29_Witness ==
  /\ kres.op = "condition"
  /\ Cardinality(kset) >= 2
  /\ kres.out.type = "CredalSet"
  /\ kres.out.set # kset
  /\ kset = kpre

====
